---- MODULE Spec2Model ----
(***************************************************************************)
(* Model of src/src/index.ts: the type normalizer (resolveTypeText), the   *)
(* path parameter extractor (parseParamsFromPath), the pretty printer      *)
(* (prettyPrintType), the client path builder (buildClientPath), the       *)
(* route tree walker (generateDocsFromType) with the renderer of a section *)
(* (formatTypeBlock, generateSdkCodeBlock), and generateDocs.              *)
(*                                                                         *)
(* A program string is a sequence of one-character strings, so that the    *)
(* scanning code (regular expressions, the character loop of the pretty    *)
(* printer) is modelled by what it does to the characters.                 *)
(***************************************************************************)
EXTENDS Integers, Sequences, FiniteSets, TLC

VARIABLES
    root,      \* the type record behind the handle "root" (the input type)
    stack,     \* resolveTypeText: the chain of nested invocations, outermost first
    ret,       \* resolveTypeText: the invocation that returned last
    result,    \* resolveTypeText: the value returned by the outermost invocation
    txtIn,     \* the string handed to a string function
    txtOp,     \* which string function was applied: "none", "params", "pretty", "pretty2", "client"
    txtOut,    \* what it returned
    txtErr,    \* TRUE when it threw instead of returning
    txtPrev,   \* what the first pass returned, when a second pass was applied
    wstack,    \* generateDocsFromType: the chain of nested invocations
    records,   \* generateDocsFromType: the sections returned by the outermost one
    trail,     \* history: the sections in the order they were pushed, each with
               \* the property names from the tree root to its method node
    lastVisit, \* history: the property visited last, and what the visit pushed
    visited,   \* generateDocsFromType: number of properties visited so far
    wstatus,   \* generateDocsFromType: "idle", "walking", "done" or "threw"
    apps,      \* generateDocs: options.apps (the input)
    project,   \* generateDocs: the source files added to the ts-morph Project
    appIdx,    \* generateDocs: the position in apps of the app handled next
    docParts,  \* generateDocs: the array parts
    errors,    \* generateDocs: what console.error was called with
    written,   \* generateDocs: what writeFileSync was called with, call by call
    dstatus    \* generateDocs: "idle", "running", "done" or "threw"

resolveVars == <<root, stack, ret, result>>
textVars == <<txtIn, txtOp, txtOut, txtErr, txtPrev>>
walkVars == <<wstack, records, trail, lastVisit, visited, wstatus>>
docVars == <<apps, project, appIdx, docParts, errors, written, dstatus>>
vars == <<root, stack, ret, result, txtIn, txtOp, txtOut, txtErr, txtPrev,
          wstack, records, trail, lastVisit, visited, wstatus,
          apps, project, appIdx, docParts, errors, written, dstatus>>

----------------------------------------------------------------------------
(* Bounds of the model *)

MaxMembers == 3        \* members of an input union / intersection / tuple
MaxPathLen == 5        \* characters of an input path
MaxTextLen == 4        \* characters of a pretty-printer input
MaxProps == 4          \* properties visited by one walk
MaxTreeDepth == 3      \* nesting of the route tree

----------------------------------------------------------------------------
(* Strings *)

EmptyStr == << >>

RECURSIVE Join(_, _)
\* Array.prototype.join
Join(parts, sep) ==
    IF Len(parts) = 0 THEN EmptyStr
    ELSE IF Len(parts) = 1 THEN parts[1]
    ELSE parts[1] \o sep \o Join(Tail(parts), sep)

\* String.prototype.startsWith
StartsWith(s, w) == Len(w) <= Len(s) /\ SubSeq(s, 1, Len(w)) = w

\* the text of s from position i on starts with w
HasPrefixAt(s, i, w) ==
    i >= 1 /\ i + Len(w) - 1 <= Len(s) /\ SubSeq(s, i, i + Len(w) - 1) = w

\* Array.prototype.includes
Includes(seq, x) == \E i \in 1..Len(seq) : seq[i] = x

Letters == {"a", "b", "c", "d", "e", "f", "g", "h", "i", "j", "k", "l", "m",
            "n", "o", "p", "q", "r", "s", "t", "u", "v", "w", "x", "y", "z",
            "A", "B", "C", "D", "E", "F", "G", "H", "I", "J", "K", "L", "M",
            "N", "O", "P", "Q", "R", "S", "T", "U", "V", "W", "X", "Y", "Z"}
Digits == {"0", "1", "2", "3", "4", "5", "6", "7", "8", "9"}
\* \w of a regular expression
WordChars == Letters \cup Digits \cup {"_"}
\* \s of a regular expression
WhiteSpace == {" ", "\n", "\t"}

\* VALID_IDENT = /^[a-zA-Z_$][a-zA-Z0-9_$]*$/
VALID_IDENT(s) ==
    /\ Len(s) >= 1
    /\ s[1] \in Letters \cup {"_", "$"}
    /\ \A i \in 2..Len(s) : s[i] \in Letters \cup Digits \cup {"_", "$"}

RECURSIVE EscapeJson(_)
EscapeJson(s) ==
    IF Len(s) = 0 THEN EmptyStr
    ELSE (IF s[1] \in {"\"", "\\"} THEN <<"\\", s[1]>> ELSE <<s[1]>>)
         \o EscapeJson(Tail(s))

\* JSON.stringify of a string (of printable characters)
JsonStringify(s) == <<"\"">> \o EscapeJson(s) \o <<"\"">>

RECURSIVE SkipWs(_, _)
\* the first position at or after i that holds no white space (\s*)
SkipWs(s, i) ==
    IF i <= Len(s) /\ s[i] \in WhiteSpace THEN SkipWs(s, i + 1) ELSE i

----------------------------------------------------------------------------
(* Constants of the program *)

S_string == <<"s", "t", "r", "i", "n", "g">>
S_number == <<"n", "u", "m", "b", "e", "r">>
S_true == <<"t", "r", "u", "e">>
S_false == <<"f", "a", "l", "s", "e">>
S_boolean == <<"b", "o", "o", "l", "e", "a", "n">>
S_null == <<"n", "u", "l", "l">>
S_undefined == <<"u", "n", "d", "e", "f", "i", "n", "e", "d">>
S_unknown == <<"u", "n", "k", "n", "o", "w", "n">>
S_emptyObj == <<"{", "}">>
S_Array == <<"A", "r", "r", "a", "y">>
S_Promise == <<"P", "r", "o", "m", "i", "s", "e">>
S_Map == <<"M", "a", "p">>
S_Set == <<"S", "e", "t">>

\* the names of KNOWN_GENERICS
KNOWN_GENERICS == {
    S_Array,
    <<"R", "e", "a", "d", "o", "n", "l", "y", "A", "r", "r", "a", "y">>,
    S_Promise,
    S_Map,
    S_Set,
    <<"W", "e", "a", "k", "M", "a", "p">>,
    <<"W", "e", "a", "k", "S", "e", "t">>,
    <<"R", "e", "a", "d", "o", "n", "l", "y">>,
    <<"P", "a", "r", "t", "i", "a", "l">>,
    <<"R", "e", "q", "u", "i", "r", "e", "d">>,
    <<"P", "i", "c", "k">>,
    <<"O", "m", "i", "t">>,
    <<"R", "e", "c", "o", "r", "d">>,
    <<"E", "x", "c", "l", "u", "d", "e">>,
    <<"E", "x", "t", "r", "a", "c", "t">>,
    <<"N", "o", "n", "N", "u", "l", "l", "a", "b", "l", "e">>,
    <<"R", "e", "t", "u", "r", "n", "T", "y", "p", "e">>,
    <<"I", "t", "e", "r", "a", "b", "l", "e">>,
    <<"I", "t", "e", "r", "a", "t", "o", "r">>,
    <<"A", "s", "y", "n", "c", "I", "t", "e", "r", "a", "b", "l", "e">>,
    <<"A", "s", "y", "n", "c", "I", "t", "e", "r", "a", "t", "o", "r">>,
    <<"G", "e", "n", "e", "r", "a", "t", "o", "r">>,
    <<"A", "s", "y", "n", "c", "G", "e", "n", "e", "r", "a", "t", "o", "r">>,
    <<"I", "t", "e", "r", "a", "b", "l", "e", "I", "t", "e", "r", "a", "t", "o", "r">> }

S_get == <<"g", "e", "t">>
S_post == <<"p", "o", "s", "t">>
S_put == <<"p", "u", "t">>
S_delete == <<"d", "e", "l", "e", "t", "e">>
S_patch == <<"p", "a", "t", "c", "h">>
HTTP_METHODS == {S_get, S_post, S_put, S_delete, S_patch}

S_response == <<"r", "e", "s", "p", "o", "n", "s", "e">>
S_store == <<"s", "t", "o", "r", "e">>
INTERNAL_PROPS == {
    <<"d", "e", "c", "o", "r", "a", "t", "o", "r">>,
    S_store,
    <<"d", "e", "r", "i", "v", "e">>,
    <<"r", "e", "s", "o", "l", "v", "e">>,
    <<"s", "c", "h", "e", "m", "a">>,
    <<"s", "t", "a", "n", "d", "a", "l", "o", "n", "e", "S", "c", "h", "e", "m", "a">>,
    S_response }

\* ARRAY_FINGERPRINT, in the order of the source
FingerprintNames == <<
    <<"l", "e", "n", "g", "t", "h">>,
    <<"p", "u", "s", "h">>,
    <<"p", "o", "p">>,
    <<"c", "o", "n", "c", "a", "t">>,
    <<"j", "o", "i", "n">>,
    <<"r", "e", "v", "e", "r", "s", "e">>,
    <<"s", "h", "i", "f", "t">>,
    <<"s", "l", "i", "c", "e">>,
    <<"s", "o", "r", "t">>,
    <<"s", "p", "l", "i", "c", "e">>,
    <<"i", "n", "d", "e", "x", "O", "f">>,
    <<"f", "o", "r", "E", "a", "c", "h">>,
    <<"m", "a", "p">>,
    <<"f", "i", "l", "t", "e", "r">>,
    <<"r", "e", "d", "u", "c", "e">>,
    <<"f", "i", "n", "d">> >>
ARRAY_FINGERPRINT == {FingerprintNames[i] : i \in 1..Len(FingerprintNames)}

MAX_RESOLVE_DEPTH == 10


S_unknownArr == <<"u", "n", "k", "n", "o", "w", "n", "[", "]">>
S_brackets == <<"[", "]">>
S_pipe == <<" ", "|", " ">>
S_amp == <<" ", "&", " ">>
S_commaSp == <<",", " ">>
S_semiSp == <<";", " ">>
S_colonSp == <<":", " ">>
S_internalPrefix == <<"_", "_", "@">>

----------------------------------------------------------------------------
(* EXPANDED_ARRAY_RE and DUPLICATE_UNION_RE *)

ExpandedWords == {
    <<"p", "o", "p">>,
    <<"p", "u", "s", "h">>,
    <<"s", "h", "i", "f", "t">>,
    <<"s", "p", "l", "i", "c", "e">>,
    <<"c", "o", "n", "c", "a", "t">>,
    <<"r", "e", "v", "e", "r", "s", "e">>,
    <<"f", "o", "r", "E", "a", "c", "h">>,
    <<"i", "n", "d", "e", "x", "O", "f">> }
SymbolWords == {
    <<"u", "n", "s", "c", "o", "p", "a", "b", "l", "e", "s">>,
    <<"i", "t", "e", "r", "a", "t", "o", "r">> }
S_SymbolDot == <<"S", "y", "m", "b", "o", "l", ".">>

\* \[\s*Symbol\.\s*(unscopables|iterator)\s*\] matches at position i
SymbolKeyAt(s, i) ==
    /\ HasPrefixAt(s, i, <<"[">>)
    /\ LET j == SkipWs(s, i + 1) IN
       /\ HasPrefixAt(s, j, S_SymbolDot)
       /\ LET k == SkipWs(s, j + Len(S_SymbolDot)) IN
          \E w \in SymbolWords :
              /\ HasPrefixAt(s, k, w)
              /\ HasPrefixAt(s, SkipWs(s, k + Len(w)), <<"]">>)

\* (?:pop|push|...)\??\s*: matches at position i
MethodKeyAt(s, i) ==
    \E w \in ExpandedWords :
        /\ HasPrefixAt(s, i, w)
        /\ LET j == i + Len(w)
               k == IF HasPrefixAt(s, j, <<"?">>) THEN j + 1 ELSE j
           IN HasPrefixAt(s, SkipWs(s, k), <<":">>)

\* EXPANDED_ARRAY_RE.test(text)
EXPANDED_ARRAY_RE(s) ==
    \E i \in 1..Len(s) : SymbolKeyAt(s, i) \/ MethodKeyAt(s, i)

\* \b between positions i-1 and i of s
WordBoundary(s, i) ==
    LET before == i - 1 >= 1 /\ i - 1 <= Len(s) /\ s[i - 1] \in WordChars
        after == i >= 1 /\ i <= Len(s) /\ s[i] \in WordChars
    IN before # after

\* DUPLICATE_UNION_RE.test(text): \b(undefined|null)\b[^;{}]*?\|\s*\1\b
DUPLICATE_UNION_RE(s) ==
    \E i \in 1..Len(s) : \E w \in {S_undefined, S_null} :
        /\ HasPrefixAt(s, i, w)
        /\ WordBoundary(s, i)
        /\ WordBoundary(s, i + Len(w))
        /\ \E j \in (i + Len(w))..Len(s) :
            /\ s[j] = "|"
            /\ \A m \in (i + Len(w))..(j - 1) : s[m] \notin {";", "{", "}"}
            /\ LET k == SkipWs(s, j + 1) IN
               /\ HasPrefixAt(s, k, w)
               /\ WordBoundary(s, k + Len(w))

----------------------------------------------------------------------------
(* The semantic types (ts-morph Type), as the queries resolveTypeText makes  *)

NoHandle == "none"
NoName == EmptyStr

\* kind: which of isArray / isTuple / isUnion / isIntersection / isObject
\* answers first; elems: the element type, the tuple elements, the union or
\* intersection members; sym, alias: getSymbol()?.getName(),
\* getAliasSymbol()?.getName(); targs, aliasTargs: getTypeArguments(),
\* getAliasTypeArguments(); props: getProperties(); numIdx:
\* getNumberIndexType(); calls: getCallSignatures().length; text: getText().
Ty(kind, elems, sym, targs, props, numIdx, text) ==
    [kind |-> kind, elems |-> elems, sym |-> sym, alias |-> NoName,
     targs |-> targs, aliasTargs |-> << >>, props |-> props,
     numIdx |-> numIdx, calls |-> 0, text |-> text]

Prim(text) == Ty("other", << >>, NoName, << >>, << >>, NoHandle, text)
Prop(name, optional, type) == [name |-> name, optional |-> optional, type |-> type]

S_id == <<"i", "d">>
S_name == <<"n", "a", "m", "e">>
S_next == <<"n", "e", "x", "t">>
S_Node == <<"N", "o", "d", "e">>
S_Foo == <<"F", "o", "o">>
\* { id: number }
S_objId == <<"{", " ", "i", "d", ":", " ", "n", "u", "m", "b", "e", "r", " ", "}">>
\* { name: string }
S_objName == <<"{", " ", "n", "a", "m", "e", ":", " ", "s", "t", "r", "i", "n", "g", " ", "}">>
\* { pop: X } : a text that EXPANDED_ARRAY_RE matches
S_noisy == <<"{", " ", "p", "o", "p", ":", " ", "X", " ", "}">>
\* { a: null | null } : a text that DUPLICATE_UNION_RE matches
S_dupNull == <<"{", " ", "a", ":", " ", "n", "u", "l", "l", " ", "|", " ", "n", "u", "l", "l", " ", "}">>
\* "'}" : the text of the string literal type whose value is '}
S_quoteLit == <<"\"", "'", "}", "\"">>
\* _ResolvePath<"users/:id">
S_resolvePath == <<"_", "R", "e", "s", "o", "l", "v", "e", "P", "a", "t", "h", "<", "\"",
                   "u", "s", "e", "r", "s", "/", ":", "i", "d", "\"", ">">>
S_strOrNull == <<"s", "t", "r", "i", "n", "g", " ", "|", " ", "n", "u", "l", "l">>
S_strArr == <<"s", "t", "r", "i", "n", "g", "[", "]">>
S_a == <<"a">>
\* { a: string | null }
S_objNullable == <<"{", " ", "a", ":", " ", "s", "t", "r", "i", "n", "g", " ", "|", " ", "n", "u", "l", "l", " ", "}">>
\* { id: number } & { name?: string }
S_idAndName == <<"{", " ", "i", "d", ":", " ", "n", "u", "m", "b", "e", "r", " ", "}", " ", "&", " ", "{", " ", "n", "a", "m", "e", "?", ":", " ", "s", "t", "r", "i", "n", "g", " ", "}">>
S_iterator == <<"_", "_", "@", "i", "t", "e", "r", "a", "t", "o", "r", "@", "3", "4">>
S_asyncIterator == <<"_", "_", "@", "a", "s", "y", "n", "c", "I", "t", "e", "r", "a", "t", "o", "r", "@", "3", "5">>
\* { [Symbol.iterator]: number }
S_objIter == <<"{", " ", "[", "S", "y", "m", "b", "o", "l", ".", "i", "t", "e", "r", "a", "t", "o", "r", "]", ":", " ", "n", "u", "m", "b", "e", "r", " ", "}">>
\* { [Symbol.asyncIterator]: number }
S_objAsync == <<"{", " ", "[", "S", "y", "m", "b", "o", "l", ".", "a", "s", "y", "n", "c", "I", "t", "e", "r", "a", "t", "o", "r", "]", ":", " ", "n", "u", "m", "b", "e", "r", " ", "}">>

\* the types every input may refer to
BaseTypes == [
    string |-> Prim(S_string),
    number |-> Prim(S_number),
    true |-> Prim(S_true),
    false |-> Prim(S_false),
    null |-> Prim(S_null),
    undefined |-> Prim(S_undefined),
    boolean |-> Prim(S_boolean),
    unknown |-> Prim(S_unknown),
    quoteLit |-> Prim(S_quoteLit),
    resolvePath |-> Prim(S_resolvePath),
    strArr |-> Ty("array", <<"string">>, S_Array, <<"string">>, << >>, "string", S_strArr),
    strOrNull |-> Ty("union", <<"string", "null">>, NoName, << >>, << >>, NoHandle, S_strOrNull),
    objId |-> Ty("object", << >>, NoName, << >>,
                 <<Prop(S_id, FALSE, "number")>>, NoHandle, S_objId),
    objName |-> Ty("object", << >>, NoName, << >>,
                   <<Prop(S_name, TRUE, "string")>>, NoHandle, S_objName),
    objEmpty |-> Ty("object", << >>, NoName, << >>, << >>, NoHandle, S_emptyObj),
    promiseStr |-> Ty("object", << >>, S_Promise, <<"string">>, << >>, NoHandle,
                      S_Promise \o <<"<">> \o S_string \o <<">">>),
    trueOrFalse |-> Ty("union", <<"false", "true">>, NoName, << >>, << >>, NoHandle, S_boolean),
    idAndName |-> Ty("intersection", <<"objId", "objName">>, NoName, << >>,
                     <<Prop(S_id, FALSE, "number"), Prop(S_name, TRUE, "string")>>,
                     NoHandle, S_idAndName),
    objNullable |-> Ty("object", << >>, NoName, << >>,
                       <<Prop(S_a, FALSE, "strOrNull")>>, NoHandle, S_objNullable),
    objIter |-> Ty("object", << >>, NoName, << >>,
                   <<Prop(S_iterator, FALSE, "number")>>, NoHandle, S_objIter),
    objAsync |-> Ty("object", << >>, NoName, << >>,
                    <<Prop(S_asyncIterator, FALSE, "number")>>, NoHandle, S_objAsync)
]

\* the type behind a handle
TypeOf(h) == IF h = "root" THEN root ELSE BaseTypes[h]

isArray(t) == t.kind = "array"
isTuple(t) == t.kind = "tuple"
isUnion(t) == t.kind = "union"
isIntersection(t) == t.kind = "intersection"
\* arrays and tuples are object types too
isObject(t) == t.kind \in {"array", "tuple", "object"}

----------------------------------------------------------------------------
(* resolveTypeText, branch by branch *)

\* variant: the guard left out
DepthGuardOff(depth) == FALSE
\* if (depth > MAX_RESOLVE_DEPTH) return type.getText(...)
DepthGuard(depth) == depth > MAX_RESOLVE_DEPTH

\* variant: no deduplication
UniqueKeepAll(parts) == parts
RECURSIVE UniqueKeepLast(_)
\* variant: each distinct string at its last occurrence
UniqueKeepLast(parts) ==
    IF Len(parts) = 0 THEN << >>
    ELSE IF Includes(Tail(parts), parts[1]) THEN UniqueKeepLast(Tail(parts))
    ELSE <<parts[1]>> \o UniqueKeepLast(Tail(parts))
RECURSIVE UniqueOf(_)
\* [...new Set(parts)]: the distinct strings, each at its first occurrence
UniqueOf(parts) ==
    IF Len(parts) = 0 THEN << >>
    ELSE LET init == UniqueOf(SubSeq(parts, 1, Len(parts) - 1))
             last == parts[Len(parts)]
         IN IF Includes(init, last) THEN init ELSE Append(init, last)

NotBoolLiteral(p) == p # S_false /\ p # S_true

\* Collapse `false | true` back to `boolean`
CollapseBoolean(unique) ==
    IF Includes(unique, S_false) /\ Includes(unique, S_true)
    THEN Append(SelectSeq(unique, NotBoolLiteral), S_boolean)
    ELSE unique

nullish == {S_null, S_undefined}

\* variant: bN - aN
NullishCompareReversed(a, b) ==
    (IF b \in nullish THEN 1 ELSE 0) - (IF a \in nullish THEN 1 ELSE 0)
\* the comparator of unique.sort: aN - bN
NullishCompare(a, b) ==
    (IF a \in nullish THEN 1 ELSE 0) - (IF b \in nullish THEN 1 ELSE 0)

RECURSIVE InsertSorted(_, _)
\* x goes behind every element that does not compare greater than it
InsertSorted(sorted, x) ==
    IF Len(sorted) = 0 THEN <<x>>
    ELSE IF NullishCompare(sorted[1], x) > 0 THEN <<x>> \o sorted
    ELSE <<sorted[1]>> \o InsertSorted(Tail(sorted), x)

RECURSIVE SortNullishLast(_)
\* Array.prototype.sort with that comparator (a stable sort)
SortNullishLast(unique) ==
    IF Len(unique) = 0 THEN << >>
    ELSE InsertSorted(SortNullishLast(SubSeq(unique, 1, Len(unique) - 1)),
                      unique[Len(unique)])

\* the members of the union, as they are joined
UnionMembers(parts) == SortNullishLast(CollapseBoolean(UniqueOf(parts)))

\* the union branch, given the resolved members
UnionText(parts) == Join(UnionMembers(parts), S_pipe)

\* variant: only a union element is wrapped
ArrayTextUnionOnly(elem, inner) ==
    IF isUnion(elem) THEN S_Array \o <<"<">> \o inner \o <<">">> ELSE inner \o S_brackets
\* the array branch, given the element type and its resolved text
ArrayText(elem, inner) ==
    IF isUnion(elem) \/ isIntersection(elem)
    THEN S_Array \o <<"<">> \o inner \o <<">">>
    ELSE inner \o S_brackets

\* the tuple branch
TupleText(elements) == <<"[">> \o Join(elements, S_commaSp) \o <<"]">>

NotInternalProp(p) == ~StartsWith(p.name, S_internalPrefix)

\* the properties an object literal is built from (not the __@ ones)
OwnProps(t) == SelectSeq(t.props, NotInternalProp)

PropTypes(t) == [i \in 1..Len(OwnProps(t)) |-> OwnProps(t)[i].type]

\* `${key}${optional}: ${resolved}`
Entry(p, resolved) ==
    (IF VALID_IDENT(p.name) THEN p.name ELSE JsonStringify(p.name))
    \o (IF p.optional THEN <<"?">> ELSE EmptyStr)
    \o S_colonSp \o resolved

\* `{ ${entries.join("; ")} }`
ObjectLiteral(t, resolved) ==
    <<"{", " ">>
    \o Join([i \in 1..Len(OwnProps(t)) |-> Entry(OwnProps(t)[i], resolved[i])], S_semiSp)
    \o <<" ", "}">>

\* every member is an anonymous object type, and one of them has properties
allAnonymousObjects(t) ==
    /\ \A i \in 1..Len(t.elems) :
          LET m == TypeOf(t.elems[i]) IN
          /\ isObject(m)
          /\ ~isArray(m)
          /\ m.calls = 0
          /\ m.sym \notin KNOWN_GENERICS
          /\ m.alias \notin KNOWN_GENERICS
    /\ \E i \in 1..Len(t.elems) : Len(TypeOf(t.elems[i]).props) > 0

\* variant: members.length > 2
FlattensThreeOrMore(t) ==
    allAnonymousObjects(t) /\ Len(t.elems) > 2 /\ Len(OwnProps(t)) > 0
\* the intersection is rendered as one merged object literal
Flattens(t) ==
    allAnonymousObjects(t) /\ Len(t.elems) > 1 /\ Len(OwnProps(t)) > 0

NotEmptyObj(p) == p # S_emptyObj

\* the intersection fall back: drop empty objects, deduplicate, join
IntersectionText(parts) ==
    LET unique == UniqueOf(SelectSeq(parts, NotEmptyObj)) IN
    IF Len(unique) = 0 THEN S_emptyObj
    ELSE IF Len(unique) = 1 THEN unique[1]
    ELSE Join(unique, S_amp)

\* type.getSymbol() ?? type.getAliasSymbol()
SymbolName(t) == IF t.sym # NoName THEN t.sym ELSE t.alias

TypeArgs(t) == IF Len(t.targs) > 0 THEN t.targs ELSE t.aliasTargs

IsKnownGeneric(t) == SymbolName(t) \in KNOWN_GENERICS

GenericText(t, args) ==
    IF Len(args) > 0
    THEN SymbolName(t) \o <<"<">> \o Join(args, S_commaSp) \o <<">">>
    ELSE SymbolName(t)

\* the number of fingerprint names among the property names
Matched(t) ==
    Cardinality({fp \in ARRAY_FINGERPRINT :
                    \E i \in 1..Len(t.props) : t.props[i].name = fp})

\* variant: every fingerprint name is required
ThresholdAll(matched) == matched >= Cardinality(ARRAY_FINGERPRINT)
\* matched >= ARRAY_FINGERPRINT.size * 0.75
Threshold(matched) == 4 * matched >= 3 * Cardinality(ARRAY_FINGERPRINT)

\* numeric index + Array-prototype props
FingerprintMatches(t) == t.numIdx # NoHandle /\ Threshold(Matched(t))

CleanText(text) == ~EXPANDED_ARRAY_RE(text) /\ ~DUPLICATE_UNION_RE(text)

\* the object branch recurses into the properties
RecursesIntoProps(t) ==
    ~CleanText(t.text) /\ Len(t.props) > 0 /\ t.calls = 0 /\ Len(OwnProps(t)) > 0

\* the types an invocation for handle h at this depth resolves, in call order
Children(h, depth) ==
    LET t == TypeOf(h) IN
    IF DepthGuard(depth) THEN << >>
    ELSE IF isArray(t) THEN t.elems
    ELSE IF isTuple(t) THEN t.elems
    ELSE IF isUnion(t) THEN t.elems
    ELSE IF isIntersection(t) THEN (IF Flattens(t) THEN PropTypes(t) ELSE t.elems)
    ELSE IF IsKnownGeneric(t) THEN TypeArgs(t)
    ELSE IF isObject(t) THEN
        (IF FingerprintMatches(t) THEN <<t.numIdx>>
         ELSE IF RecursesIntoProps(t) THEN PropTypes(t)
         ELSE << >>)
    ELSE << >>

\* what the invocation returns, given the values its nested invocations returned
Finish(h, depth, acc) ==
    LET t == TypeOf(h) IN
    IF DepthGuard(depth) THEN t.text
    ELSE IF isArray(t) THEN
        (IF Len(t.elems) = 0 THEN S_unknownArr
         ELSE ArrayText(TypeOf(t.elems[1]), acc[1]))
    ELSE IF isTuple(t) THEN TupleText(acc)
    ELSE IF isUnion(t) THEN UnionText(acc)
    ELSE IF isIntersection(t) THEN
        (IF Flattens(t) THEN ObjectLiteral(t, acc) ELSE IntersectionText(acc))
    ELSE IF IsKnownGeneric(t) THEN GenericText(t, acc)
    ELSE IF isObject(t) THEN
        (IF FingerprintMatches(t) THEN acc[1] \o S_brackets
         ELSE IF RecursesIntoProps(t) THEN ObjectLiteral(t, acc)
         ELSE t.text)
    ELSE t.text

RECURSIVE resolveTypeText(_, _)
\* the function as a whole
resolveTypeText(h, depth) ==
    Finish(h, depth,
           [i \in 1..Len(Children(h, depth)) |->
               resolveTypeText(Children(h, depth)[i], depth + 1)])

----------------------------------------------------------------------------
(* The input types *)

SeqsOf(S, lo, hi) == UNION {[1..n -> S] : n \in lo..hi}

S_U == <<"U">>
S_I == <<"I">>
S_T == <<"T">>

UnionMemberHandles ==
    {"string", "number", "true", "false", "null", "undefined", "boolean"}

UnionRoots ==
    {Ty("union", ms, NoName, << >>, << >>, NoHandle, S_U) :
        ms \in SeqsOf(UnionMemberHandles, 2, MaxMembers)}

\* the first k fingerprint names as properties
FingerprintProps(k) == [i \in 1..k |-> Prop(FingerprintNames[i], FALSE, "number")]

ExtraProps == {<< >>, <<Prop(S_id, FALSE, "number")>>,
               <<Prop(S_internalPrefix \o S_id, FALSE, "number"), Prop(S_name, TRUE, "strArr")>>}

\* object types around the array fingerprint
ObjectRoots ==
    {Ty("object", << >>, NoName, << >>, FingerprintProps(k) \o extra, idx, text) :
        k \in 0..Len(FingerprintNames), extra \in ExtraProps,
        idx \in {NoHandle, "string", "strOrNull"}, text \in {S_objId, S_noisy, S_dupNull}}

\* types that refer to themselves
CyclicRoots == {
    Ty("array", <<"root">>, S_Array, <<"root">>, << >>, "root", S_Node),
    Ty("tuple", <<"root">>, NoName, << >>, << >>, NoHandle, S_Node),
    Ty("tuple", <<"string", "root">>, NoName, << >>, << >>, NoHandle, S_Node),
    Ty("object", << >>, S_Promise, <<"root">>, << >>, NoHandle, S_Node),
    Ty("object", << >>, NoName, << >>, <<Prop(S_next, TRUE, "root")>>, NoHandle, S_noisy),
    Ty("object", << >>, NoName, << >>, <<Prop(S_next, TRUE, "root")>>, NoHandle, S_Node),
    Ty("object", << >>, NoName, << >>, FingerprintProps(Len(FingerprintNames)), "root", S_Node),
    Ty("intersection", <<"objId", "objName">>, NoName, << >>,
       <<Prop(S_id, FALSE, "number"), Prop(S_next, FALSE, "root")>>, NoHandle, S_Node) }

ArrayRoots ==
    {Ty("array", es, S_Array, es, << >>, NoHandle, S_T \o S_brackets) :
        es \in SeqsOf({"string", "strOrNull", "objId", "strArr", "quoteLit",
                       "trueOrFalse", "idAndName", "objNullable"}, 0, 1)}

TupleRoots ==
    {Ty("tuple", es, NoName, es, << >>, NoHandle, S_T) :
        es \in SeqsOf({"string", "number", "strOrNull"}, 0, 2)}

RECURSIVE MergeProps(_)
\* the properties of an intersection: those of its members, each name once
MergeProps(ms) ==
    IF Len(ms) = 0 THEN << >>
    ELSE LET init == MergeProps(SubSeq(ms, 1, Len(ms) - 1))
             more == TypeOf(ms[Len(ms)]).props
             known == {init[i].name : i \in 1..Len(init)}
             IsNew(p) == p.name \notin known
         IN init \o SelectSeq(more, IsNew)

IntersectionMemberHandles ==
    {"objId", "objName", "objEmpty", "string", "promiseStr", "strArr", "objIter", "objAsync"}

IntersectionRoots ==
    {Ty("intersection", ms, NoName, << >>, MergeProps(ms), NoHandle, S_I) :
        ms \in SeqsOf(IntersectionMemberHandles, 1, MaxMembers)}

GenericRoots ==
    {Ty("object", << >>, sym, args, << >>, NoHandle, sym) :
        sym \in {S_Promise, S_Map, S_Foo}, args \in SeqsOf({"string", "strOrNull"}, 0, 2)}

RootTypes ==
    UnionRoots \cup ObjectRoots \cup CyclicRoots \cup ArrayRoots \cup TupleRoots
    \cup IntersectionRoots \cup GenericRoots \cup {Prim(S_string), Prim(S_quoteLit)}

----------------------------------------------------------------------------
(* resolveTypeText as a chain of nested invocations *)

Frame(h, depth) == [h |-> h, depth |-> depth, acc |-> << >>]

NoReturn == [h |-> NoHandle, depth |-> -1, acc |-> << >>, value |-> EmptyStr]
NoResult == [done |-> FALSE, value |-> EmptyStr]

Top == stack[Len(stack)]

TextIdle ==
    /\ txtIn = EmptyStr
    /\ txtOp = "none"
    /\ txtOut = EmptyStr
    /\ txtErr = FALSE
    /\ txtPrev = EmptyStr
NoVisit ==
    [kind |-> "none", name |-> EmptyStr, path |-> EmptyStr, chain |-> << >>, pushed |-> 0]

WalkIdle ==
    /\ wstack = << >>
    /\ records = << >>
    /\ trail = << >>
    /\ lastVisit = NoVisit
    /\ visited = 0
    /\ wstatus = "idle"

DocsIdle ==
    /\ apps = << >>
    /\ project = {}
    /\ appIdx = 0
    /\ docParts = << >>
    /\ errors = << >>
    /\ written = << >>
    /\ dstatus = "idle"

\* resolveTypeText(type, enclosingNode) is called on an input type, depth = 0
Init ==
    /\ root \in RootTypes
    /\ stack = <<Frame("root", 0)>>
    /\ ret = NoReturn
    /\ result = NoResult
    /\ TextIdle
    /\ WalkIdle
    /\ DocsIdle

\* the running invocation makes its next nested call, at depth + 1
Invoke ==
    /\ Len(stack) > 0
    /\ Len(Top.acc) < Len(Children(Top.h, Top.depth))
    /\ stack' = Append(stack, Frame(Children(Top.h, Top.depth)[Len(Top.acc) + 1],
                                    Top.depth + 1))
    /\ UNCHANGED <<root, ret, result>>
    /\ UNCHANGED textVars
    /\ UNCHANGED walkVars
    /\ UNCHANGED docVars

\* the running invocation has every nested value it asked for, and returns
Return ==
    /\ Len(stack) > 0
    /\ Len(Top.acc) = Len(Children(Top.h, Top.depth))
    /\ LET value == Finish(Top.h, Top.depth, Top.acc)
           n == Len(stack)
       IN /\ ret' = [h |-> Top.h, depth |-> Top.depth, acc |-> Top.acc, value |-> value]
          /\ IF n = 1
             THEN /\ stack' = << >>
                  /\ result' = [done |-> TRUE, value |-> value]
             ELSE /\ stack' = [SubSeq(stack, 1, n - 1) EXCEPT
                                  ![n - 1].acc = Append(@, value)]
                  /\ UNCHANGED result
    /\ UNCHANGED root
    /\ UNCHANGED textVars
    /\ UNCHANGED walkVars
    /\ UNCHANGED docVars

Next == Invoke \/ Return

Spec == Init /\ [][Next]_vars

----------------------------------------------------------------------------
(* Notions the properties are stated with *)

Range(seq) == {seq[i] : i \in 1..Len(seq)}

RECURSIVE Split(_, _)
\* the pieces of s between the occurrences of a non-empty separator
Split(s, sep) ==
    LET hits == {i \in 1..Len(s) : HasPrefixAt(s, i, sep)} IN
    IF hits = {} THEN <<s>>
    ELSE LET i == CHOOSE k \in hits : \A m \in hits : k <= m
         IN <<SubSeq(s, 1, i - 1)>> \o Split(SubSeq(s, i + Len(sep), Len(s)), sep)

RECURSIVE FirstOccurrences(_)
\* seq without the elements that repeat an earlier one
FirstOccurrences(seq) ==
    IF Len(seq) = 0 THEN << >>
    ELSE LET x == seq[1]
             IsOther(y) == y # x
         IN <<x>> \o FirstOccurrences(SelectSeq(Tail(seq), IsOther))

Distinct(seq) == \A i, j \in 1..Len(seq) : i # j => seq[i] # seq[j]

IsNullish(p) == p = S_null \/ p = S_undefined
IsConcrete(p) == ~IsNullish(p)

\* an invocation that took the union branch has just returned
UnionReturned ==
    /\ ret.h # NoHandle
    /\ ret.depth <= MAX_RESOLVE_DEPTH
    /\ isUnion(TypeOf(ret.h))

\* the members of the returned union expression
ReturnedMembers == Split(ret.value, S_pipe)

\* an invocation that reached the object step has just returned
ObjectStepReturned ==
    /\ ret.h # NoHandle
    /\ ret.depth <= MAX_RESOLVE_DEPTH
    /\ TypeOf(ret.h).kind = "object"
    /\ ~IsKnownGeneric(TypeOf(ret.h))

----------------------------------------------------------------------------
(* Properties of resolveTypeText *)

\* C1: every invocation with depth > 10 returns the raw text of its handle and
\* makes no nested call, so the chain of nested invocations never goes deeper
\* than depth 11 (12 frames), also on types that refer to themselves.
C1_DepthBounded ==
    /\ Len(stack) <= MAX_RESOLVE_DEPTH + 2
    /\ \A i \in 1..Len(stack) :
          /\ stack[i].depth = i - 1
          /\ stack[i].depth > MAX_RESOLVE_DEPTH =>
                (i = Len(stack) /\ stack[i].acc = << >>)
    /\ ret.depth > MAX_RESOLVE_DEPTH =>
          (ret.acc = << >> /\ ret.value = TypeOf(ret.h).text)

\* an invocation at depth 11 on a type that refers to itself has returned
C1_Witness ==
    /\ ret.depth = MAX_RESOLVE_DEPTH + 1
    /\ ret.h = "root"
    /\ ret.value = root.text

\* C3 as stated: union member lists with the same set of normalized members
\* give the same expression, whatever the order and the repetitions.
C3_CanonicalOriginal ==
    UnionReturned =>
        \A q \in SeqsOf(Range(ret.acc), 1, Len(ret.acc)) :
            Range(q) = Range(ret.acc) => UnionText(q) = ret.value

\* C3 amended: such member lists give expressions with the same set of members,
\* and the same expression when the distinct members first occur in the same
\* order (they differ only in repeated members).
C3_CanonicalAmended ==
    UnionReturned =>
        \A q \in SeqsOf(Range(ret.acc), 1, Len(ret.acc)) :
            Range(q) = Range(ret.acc) =>
                /\ Range(Split(UnionText(q), S_pipe)) = Range(ReturnedMembers)
                /\ FirstOccurrences(q) = FirstOccurrences(ret.acc) =>
                      UnionText(q) = ret.value

\* a union with a repeated member, listed B | A | B, has returned
C3_Witness ==
    /\ UnionReturned
    /\ Len(ret.acc) = 3
    /\ ret.acc[1] = ret.acc[3]
    /\ ret.acc[1] # ret.acc[2]
    /\ ret.value = UnionText(<<ret.acc[1], ret.acc[2]>>)
    /\ ret.value # UnionText(<<ret.acc[2], ret.acc[1]>>)

\* C4: the union branch removes repeated members, by equality of their
\* normalized strings, keeping the first occurrence: the result is that of the
\* member list without repetitions (A | A | B gives what A | B gives), and
\* unless true and false are both present every member is listed once.
C4_UnionDedup ==
    UnionReturned =>
        /\ ret.value = UnionText(FirstOccurrences(ret.acc))
        /\ ~(S_true \in Range(ret.acc) /\ S_false \in Range(ret.acc)) =>
              /\ Distinct(ReturnedMembers)
              /\ Range(ReturnedMembers) = Range(ret.acc)

\* a union A | A | B of two distinct primitives has returned A | B
C4_Witness ==
    /\ UnionReturned
    /\ root.elems = <<"string", "string", "number">>
    /\ ret.h = "root"
    /\ ret.value = S_string \o S_pipe \o S_number

\* C5 as stated: when the members hold both true and false, the result holds
\* neither and holds boolean exactly once; otherwise the literals stay.
C5_BooleanCollapse ==
    UnionReturned =>
        LET both == S_true \in Range(ret.acc) /\ S_false \in Range(ret.acc)
            ms == ReturnedMembers
        IN /\ both =>
                /\ S_true \notin Range(ms)
                /\ S_false \notin Range(ms)
                /\ Cardinality({i \in 1..Len(ms) : ms[i] = S_boolean}) = 1
           /\ ~both =>
                /\ (S_true \in Range(ret.acc)) = (S_true \in Range(ms))
                /\ (S_false \in Range(ret.acc)) = (S_false \in Range(ms))

\* C6: in the result of the union branch every null / undefined member comes
\* after every other member, and within each of the two groups the order is
\* that of the deduplicated, boolean-collapsed member list.
C6_NullableOrdering ==
    UnionReturned =>
        LET ms == ReturnedMembers
            base == CollapseBoolean(FirstOccurrences(ret.acc))
        IN /\ \A i, j \in 1..Len(ms) :
                  (i < j /\ IsNullish(ms[i])) => IsNullish(ms[j])
           /\ SelectSeq(ms, IsConcrete) = SelectSeq(base, IsConcrete)
           /\ SelectSeq(ms, IsNullish) = SelectSeq(base, IsNullish)

\* undefined | string | null has returned string | undefined | null
C6_Witness ==
    /\ UnionReturned
    /\ ret.acc = <<S_undefined, S_string, S_null>>
    /\ ret.value = S_string \o S_pipe \o S_undefined \o S_pipe \o S_null

\* the number of reference array-prototype names among the properties of t
FingerprintCount(t) ==
    Cardinality({i \in 1..Len(FingerprintNames) :
                    \E j \in 1..Len(t.props) : t.props[j].name = FingerprintNames[i]})

\* C7: a type at the object step with a numeric index signature and 12 or more
\* of the 16 reference names gives E[], E the numeric-index element type
\* normalized at depth + 1; with 11 or fewer, or without a numeric index
\* signature, the numeric-index type is not resolved and the result is the raw
\* text or the object literal of the properties.
C7_ArrayCollapse ==
    ObjectStepReturned =>
        LET t == TypeOf(ret.h) IN
        IF t.numIdx # NoHandle /\ FingerprintCount(t) >= 12
        THEN /\ ret.value = resolveTypeText(t.numIdx, ret.depth + 1) \o S_brackets
             /\ Len(ret.acc) = 1
        ELSE /\ Len(ret.acc) \in {0, Len(OwnProps(t))}
             /\ ret.value = (IF Len(ret.acc) = 0 /\ ~RecursesIntoProps(t)
                             THEN t.text ELSE ObjectLiteral(t, ret.acc))

\* an object with a numeric index signature and exactly 12 reference names
\* has returned the element type followed by []
C7_Witness ==
    /\ ObjectStepReturned
    /\ root.numIdx = "strOrNull"
    /\ FingerprintCount(root) = 12
    /\ ret.h = "root"
    /\ ret.value = S_string \o S_pipe \o S_null \o S_brackets

----------------------------------------------------------------------------
(* parseParamsFromPath *)

RECURSIVE RunEnd(_, _)
\* the first position at or after i that holds a "/" ([^/]+ stops there)
RunEnd(s, i) == IF i <= Len(s) /\ s[i] # "/" THEN RunEnd(s, i + 1) ELSE i

RECURSIVE MatchParams(_, _)
\* path.matchAll(/\/:([^/]+)/g), the captured names, searching from position i
MatchParams(s, i) ==
    IF i > Len(s) THEN << >>
    ELSE IF HasPrefixAt(s, i, <<"/", ":">>) /\ i + 2 <= Len(s) /\ s[i + 2] # "/"
    THEN <<SubSeq(s, i + 2, RunEnd(s, i + 2) - 1)>> \o MatchParams(s, RunEnd(s, i + 2))
    ELSE MatchParams(s, i + 1)

S_colonString == <<":", " ", "s", "t", "r", "i", "n", "g">>

\* `{${params.map((name) => `${name}: string`).join(", ")}}`, or "{}"
ParamsLiteral(params) ==
    IF Len(params) > 0
    THEN <<"{">> \o Join([i \in 1..Len(params) |-> params[i] \o S_colonString], S_commaSp)
         \o <<"}">>
    ELSE S_emptyObj

parseParamsFromPath(path) == ParamsLiteral(MatchParams(path, 1))

----------------------------------------------------------------------------
(* prettyPrintType *)

RECURSIVE Repeat(_, _)
\* String.prototype.repeat for a count >= 0
Repeat(s, n) == IF n <= 0 THEN EmptyStr ELSE s \o Repeat(s, n - 1)

S_indent == <<" ", " ">>
S_nl == <<"\n">>

\* the state of the loop before the first character
PrettyStart ==
    [chunks |-> << >>, indent |-> 0, inString |-> FALSE, escaped |-> FALSE,
     threw |-> FALSE]

\* variant: the escaped character is not pushed
PushEscapedDropped(st, char) == [st EXCEPT !.escaped = FALSE]
\* if (escaped) { chunks.push(char); escaped = false; }
PushEscaped(st, char) == [st EXCEPT !.chunks = Append(@, <<char>>), !.escaped = FALSE]

\* one iteration of the loop over the characters; "  ".repeat(n) throws a
\* RangeError when n is negative
PrettyStep(st, char) ==
    IF st.threw THEN st
    ELSE IF st.escaped THEN PushEscaped(st, char)
    ELSE IF char = "\\" THEN
        [st EXCEPT !.chunks = Append(@, <<char>>), !.escaped = TRUE]
    ELSE IF char = "\"" \/ char = "'" THEN
        [st EXCEPT !.chunks = Append(@, <<char>>), !.inString = ~st.inString]
    ELSE IF st.inString THEN
        [st EXCEPT !.chunks = Append(@, <<char>>)]
    ELSE IF char = "{" \/ char = "[" THEN
        [st EXCEPT !.chunks = @ \o <<<<char>>, S_nl, Repeat(S_indent, st.indent + 1)>>,
                   !.indent = st.indent + 1]
    ELSE IF char = "}" \/ char = "]" THEN
        (IF st.indent - 1 < 0
         THEN [st EXCEPT !.indent = st.indent - 1, !.threw = TRUE]
         ELSE [st EXCEPT !.chunks = @ \o <<S_nl, Repeat(S_indent, st.indent - 1), <<char>>>>,
                         !.indent = st.indent - 1])
    ELSE IF char = ";" \/ char = "," THEN
        [st EXCEPT !.chunks = @ \o <<<<char>>, S_nl, Repeat(S_indent, st.indent)>>]
    ELSE IF char # " " \/ Len(st.chunks) = 0 \/ st.chunks[Len(st.chunks)] # <<" ">> THEN
        [st EXCEPT !.chunks = Append(@, <<char>>)]
    ELSE st

RECURSIVE PrettyLoop(_, _, _)
\* for (const char of typeStr), from position i on
PrettyLoop(st, s, i) ==
    IF i > Len(s) THEN st ELSE PrettyLoop(PrettyStep(st, s[i]), s, i + 1)

\* the last line break in s[from..to], or 0
LastNewline(s, from, to) ==
    LET hits == {k \in from..to : s[k] = "\n"} IN
    IF hits = {} THEN 0 ELSE CHOOSE k \in hits : \A m \in hits : m <= k

RECURSIVE CollapseBlank(_, _)
\* .replace(/([;,])\n\s*\n(\s*[}\]])/g, "$1\n$2"), from position i on
CollapseBlank(s, i) ==
    IF i > Len(s) THEN EmptyStr
    ELSE LET e == SkipWs(s, i + 2)
             p == LastNewline(s, i + 2, e - 1)
         IN IF /\ s[i] \in {";", ","}
               /\ HasPrefixAt(s, i + 1, S_nl)
               /\ e <= Len(s)
               /\ s[e] \in {"}", "]"}
               /\ p # 0
            THEN <<s[i]>> \o S_nl \o SubSeq(s, p + 1, e) \o CollapseBlank(s, e + 1)
            ELSE <<s[i]>> \o CollapseBlank(s, i + 1)

RECURSIVE TrimEnd(_)
TrimEnd(s) ==
    IF Len(s) > 0 /\ s[Len(s)] \in WhiteSpace THEN TrimEnd(SubSeq(s, 1, Len(s) - 1)) ELSE s

\* String.prototype.trim
Trim(s) == LET i == SkipWs(s, 1) IN TrimEnd(SubSeq(s, i, Len(s)))

\* the result of prettyPrintType: the string returned, or threw = TRUE
prettyPrintType(typeStr) ==
    LET st == PrettyLoop(PrettyStart, typeStr, 1) IN
    IF st.threw THEN [threw |-> TRUE, value |-> EmptyStr]
    ELSE [threw |-> FALSE, value |-> Trim(CollapseBlank(Join(st.chunks, EmptyStr), 1))]

----------------------------------------------------------------------------
(* buildClientPath *)

S_client == <<"c", "l", "i", "e", "n", "t">>
S_paramsOpen == <<"[", "p", "a", "r", "a", "m", "s", ".">>

NotEmptyStr(s) == Len(s) > 0

\* one step of the reduce
ClientStep(chain, segment) ==
    IF StartsWith(segment, <<":">>)
    THEN chain \o S_paramsOpen \o SubSeq(segment, 2, Len(segment)) \o <<"]">>
    ELSE IF VALID_IDENT(segment) THEN chain \o <<".">> \o segment
    ELSE chain \o <<"[", "\"">> \o segment \o <<"\"", "]">>

RECURSIVE ClientReduce(_, _)
ClientReduce(chain, segments) ==
    IF Len(segments) = 0 THEN chain
    ELSE ClientReduce(ClientStep(chain, segments[1]), Tail(segments))

\* path.split("/").filter(Boolean).reduce(..., "client")
buildClientPath(path) ==
    ClientReduce(S_client, SelectSeq(Split(path, <<"/">>), NotEmptyStr))

----------------------------------------------------------------------------
(* The string functions applied to input strings *)

PathAlphabet == {"/", ":", "a", "b"}
TextAlphabet == {"{", "}", "[", ";", " ", "\"", "'", "\\", "a"}

\* /users/:id/posts/:postId
S_usersPath == <<"/", "u", "s", "e", "r", "s", "/", ":", "i", "d", "/", "p", "o", "s", "t", "s",
                 "/", ":", "p", "o", "s", "t", "I", "d">>
S_healthPath == <<"/", "h", "e", "a", "l", "t", "h">>

\* the expressions resolveTypeText returns for the base types
CanonicalExpressions == {resolveTypeText(h, 0) : h \in DOMAIN BaseTypes}

TextInputs ==
    SeqsOf(PathAlphabet, 0, MaxPathLen) \cup SeqsOf(TextAlphabet, 0, MaxTextLen)
    \cup {S_usersPath, S_healthPath} \cup CanonicalExpressions

ResolveIdle ==
    root = Prim(S_string) /\ stack = << >> /\ ret = NoReturn /\ result = NoResult

InitText ==
    /\ txtIn \in TextInputs
    /\ txtOp = "none"
    /\ txtOut = EmptyStr
    /\ txtErr = FALSE
    /\ txtPrev = EmptyStr
    /\ ResolveIdle
    /\ WalkIdle
    /\ DocsIdle

ApplyParams ==
    /\ txtOp = "none"
    /\ txtOp' = "params"
    /\ txtOut' = parseParamsFromPath(txtIn)
    /\ UNCHANGED <<txtIn, txtErr, txtPrev>>
    /\ UNCHANGED resolveVars
    /\ UNCHANGED walkVars
    /\ UNCHANGED docVars

ApplyPretty ==
    /\ txtOp = "none"
    /\ txtOp' = "pretty"
    /\ txtOut' = prettyPrintType(txtIn).value
    /\ txtErr' = prettyPrintType(txtIn).threw
    /\ UNCHANGED <<txtIn, txtPrev>>
    /\ UNCHANGED resolveVars
    /\ UNCHANGED walkVars
    /\ UNCHANGED docVars

\* prettyPrintType applied to what prettyPrintType returned
ApplyPrettyAgain ==
    /\ txtOp = "pretty"
    /\ ~txtErr
    /\ txtOp' = "pretty2"
    /\ txtPrev' = txtOut
    /\ txtOut' = prettyPrintType(txtOut).value
    /\ txtErr' = prettyPrintType(txtOut).threw
    /\ UNCHANGED txtIn
    /\ UNCHANGED resolveVars
    /\ UNCHANGED walkVars
    /\ UNCHANGED docVars

ApplyClient ==
    /\ txtOp = "none"
    /\ txtOp' = "client"
    /\ txtOut' = buildClientPath(txtIn)
    /\ UNCHANGED <<txtIn, txtErr, txtPrev>>
    /\ UNCHANGED resolveVars
    /\ UNCHANGED walkVars
    /\ UNCHANGED docVars

NextText == ApplyParams \/ ApplyPretty \/ ApplyPrettyAgain \/ ApplyClient

SpecText == InitText /\ [][NextText]_vars

\* the names of the segments of a path that begin with the parameter marker
\* (a lone ":" names no parameter)
ParamSegmentNames(path) ==
    LET IsParam(seg) == StartsWith(seg, <<":">>) /\ Len(seg) > 1
        segs == SelectSeq(Split(path, <<"/">>), IsParam)
    IN [i \in 1..Len(segs) |-> SubSeq(segs[i], 2, Len(segs[i]))]

\* C8 as stated: for every path, starting with "/" or not, the result has one
\* `name: string` field per segment that begins with ":", in path order, and
\* is {} when there is none.
C8_ParamsPerSegment ==
    txtOp = "params" =>
        LET names == ParamSegmentNames(txtIn) IN
        txtOut = (IF Len(names) = 0 THEN S_emptyObj
                  ELSE <<"{">> \o Join([i \in 1..Len(names) |-> names[i] \o S_colonString],
                                       S_commaSp) \o <<"}">>)

----------------------------------------------------------------------------
(* generateDocsFromType *)

S_body == <<"b", "o", "d", "y">>
S_params == <<"p", "a", "r", "a", "m", "s">>
S_query == <<"q", "u", "e", "r", "y">>
S_headers == <<"h", "e", "a", "d", "e", "r", "s">>
S_Routes == <<"~", "R", "o", "u", "t", "e", "s">>
S_users == <<"u", "s", "e", "r", "s">>
S_colonId == <<":", "i", "d">>
S_underscoreX == <<"_", "x">>
S_tildeX == <<"~", "x">>
S_resolvePrefix == <<"_", "R", "e", "s", "o", "l", "v", "e", "P", "a", "t", "h", "<">>

\* const routeTypes = { body: "unknown", params: "{}", query: "unknown", response: "{}" }
RouteTypeDefaults ==
    [k \in {S_body, S_params, S_query, S_response} |->
        IF k \in {S_body, S_query} THEN S_unknown ELSE S_emptyObj]

RECURSIVE RouteTypes(_)
\* the loop over the properties of the method descriptor: a key of routeTypes
\* gets the normalized type (a key routeTypes only inherits is written to a
\* field that is never read)
RouteTypes(methodProps) ==
    IF Len(methodProps) = 0 THEN RouteTypeDefaults
    ELSE LET init == RouteTypes(SubSeq(methodProps, 1, Len(methodProps) - 1))
             last == methodProps[Len(methodProps)]
         IN IF last.name \in DOMAIN init
            THEN [init EXCEPT ![last.name] = resolveTypeText(last.type, 0)]
            ELSE init

RECURSIVE QuoteEnd(_, _)
\* the first position at or after i that holds a double quote ([^"]+ stops there)
QuoteEnd(s, i) == IF i <= Len(s) /\ s[i] # "\"" THEN QuoteEnd(s, i + 1) ELSE i

\* routeTypes.params.match(/_ResolvePath<"([^"]+)">/) matches at position i
ResolvePathAt(s, i) ==
    LET j == i + Len(S_resolvePrefix) + 1 IN
    /\ HasPrefixAt(s, i, S_resolvePrefix \o <<"\"">>)
    /\ QuoteEnd(s, j) > j
    /\ HasPrefixAt(s, QuoteEnd(s, j), <<"\"", ">">>)

\* the repair of an unresolved _ResolvePath<"..."> params type
RepairParams(params) ==
    IF StartsWith(params, S_resolvePrefix)
    THEN LET hits == {i \in 1..Len(params) : ResolvePathAt(params, i)} IN
         IF hits = {} THEN params
         ELSE LET i == CHOOSE k \in hits : \A m \in hits : k <= m
                  j == i + Len(S_resolvePrefix) + 1
              IN parseParamsFromPath(SubSeq(params, j, QuoteEnd(params, j) - 1))
    ELSE params

\* the character U+0060 (grave accent), which a TLA+ string cannot hold
Grave == "U+0060"

S_stars == <<"*", "*">>
\* :**\n\n```typescript\n
S_blockOpen == <<":", "*", "*", "\n", "\n", Grave, Grave, Grave, "t", "y", "p", "e", "s", "c", "r", "i", "p", "t", "\n">>
\* \n```\n\n
S_blockClose == <<"\n", Grave, Grave, Grave, "\n", "\n">>
S_Body == <<"B", "o", "d", "y">>
S_Params == <<"P", "a", "r", "a", "m", "s">>
S_Query == <<"Q", "u", "e", "r", "y">>
S_Response == <<"R", "e", "s", "p", "o", "n", "s", "e">>

NoBlock == [threw |-> FALSE, value |-> EmptyStr]

\* `**${label}:**\n\n\`\`\`typescript\n${prettyPrintType(typeStr)}\n\`\`\`\n\n`
formatTypeBlock(label, typeStr) ==
    LET pretty == prettyPrintType(typeStr) IN
    IF pretty.threw THEN [threw |-> TRUE, value |-> EmptyStr]
    ELSE [threw |-> FALSE,
          value |-> S_stars \o label \o S_blockOpen \o pretty.value \o S_blockClose]

RECURSIVE ReplaceAll(_, _, _)
\* String.prototype.replace with a global pattern of literal characters
ReplaceAll(s, pat, rep) ==
    IF Len(s) = 0 THEN EmptyStr
    ELSE IF HasPrefixAt(s, 1, pat)
    THEN rep \o ReplaceAll(SubSeq(s, Len(pat) + 1, Len(s)), pat, rep)
    ELSE <<s[1]>> \o ReplaceAll(Tail(s), pat, rep)

RECURSIVE DropCommaBeforeBrace(_)
\* .replace(/,(\s*})/g, "$1")
DropCommaBeforeBrace(s) ==
    IF Len(s) = 0 THEN EmptyStr
    ELSE LET e == SkipWs(s, 2) IN
         IF s[1] = "," /\ e <= Len(s) /\ s[e] = "}"
         THEN SubSeq(s, 2, e) \o DropCommaBeforeBrace(SubSeq(s, e + 1, Len(s)))
         ELSE <<s[1]>> \o DropCommaBeforeBrace(Tail(s))

S_exampleValue == <<":", " ", "\"", "e", "x", "a", "m", "p", "l", "e", "-", "v", "a", "l", "u", "e", "\"">>

\* the object literal of `const params = ...`
ParamsExample(paramsType) ==
    ReplaceAll(DropCommaBeforeBrace(ReplaceAll(paramsType, <<";">>, <<",">>)),
               S_colonString, S_exampleValue)

S_fence == <<Grave, Grave, Grave, "t", "y", "p", "e", "s", "c", "r", "i", "p", "t">>
S_fenceEnd == <<Grave, Grave, Grave, "\n">>
S_defaultImport == <<"i", "m", "p", "o", "r", "t", " ", "{", " ", "t", "r", "e", "a", "t", "y", " ", "}", " ", "f", "r", "o", "m", " ", "\"", "e", "l", "y", "s", "i", "a", "\"", ";">>
S_treaty == <<"t", "r", "e", "a", "t", "y">>
S_constClient == <<"c", "o", "n", "s", "t", " ", "c", "l", "i", "e", "n", "t", " ", "=", " ">>
S_constParams == <<"c", "o", "n", "s", "t", " ", "p", "a", "r", "a", "m", "s", " ", "=", " ">>
S_defineBody == <<"/", "/", " ", "D", "e", "f", "i", "n", "e", " ", "y", "o", "u", "r", " ", "r", "e", "q", "u", "e", "s", "t", " ", "b", "o", "d", "y", "\n", "c", "o", "n", "s", "t", " ", "b", "o", "d", "y", " ", "=", " ", "{", "}", ";", " ", "/", "/", " ", "R", "e", "p", "l", "a", "c", "e", " ", "w", "i", "t", "h", " ", "a", "c", "t", "u", "a", "l", " ", "b", "o", "d", "y", " ", "d", "a", "t", "a", "\n">>
S_defineQuery == <<"/", "/", " ", "D", "e", "f", "i", "n", "e", " ", "y", "o", "u", "r", " ", "q", "u", "e", "r", "y", " ", "p", "a", "r", "a", "m", "e", "t", "e", "r", "s", "\n", "c", "o", "n", "s", "t", " ", "q", "u", "e", "r", "y", " ", "=", " ", "{", "}", ";", " ", "/", "/", " ", "R", "e", "p", "l", "a", "c", "e", " ", "w", "i", "t", "h", " ", "a", "c", "t", "u", "a", "l", " ", "q", "u", "e", "r", "y", " ", "d", "a", "t", "a", "\n">>
S_constResponse == <<"c", "o", "n", "s", "t", " ", "r", "e", "s", "p", "o", "n", "s", "e", " ", "=", " ", "a", "w", "a", "i", "t", " ">>
S_queryArg == <<"{", " ", "q", "u", "e", "r", "y", " ", "}">>

\* variant: the query argument is left out
CallArgsBodyOnly(hasBody, hasQuery) == IF hasBody THEN S_body ELSE EmptyStr
\* [hasBody && "body", hasQuery && "{ query }"].filter(Boolean).join(", ")
CallArgs(hasBody, hasQuery) ==
    Join(SelectSeq(<<IF hasBody THEN S_body ELSE EmptyStr,
                     IF hasQuery THEN S_queryArg ELSE EmptyStr>>, NotEmptyStr),
         S_commaSp)

\* the usage snippet of one endpoint: lines.filter(Boolean).join("\n")
generateSdkCodeBlock(path, method, hasBody, hasParams, hasQuery, paramsType, sdkImport, sdkClientName, sdkClientOptions) ==
    Join(SelectSeq(
            <<S_fence,
              sdkImport \o S_nl,
              S_constClient \o sdkClientName \o <<"(">> \o sdkClientOptions \o <<")", ";", "\n">>,
              IF hasParams
              THEN S_constParams \o ParamsExample(paramsType) \o <<";", "\n">>
              ELSE EmptyStr,
              IF hasBody THEN S_defineBody ELSE EmptyStr,
              IF hasQuery THEN S_defineQuery ELSE EmptyStr,
              S_constResponse \o buildClientPath(path) \o <<".">> \o method
                  \o <<"(">> \o CallArgs(hasBody, hasQuery) \o <<")", ";">>,
              S_fenceEnd>>,
            NotEmptyStr),
         S_nl)

LowerCase == <<"a", "b", "c", "d", "e", "f", "g", "h", "i", "j", "k", "l", "m", "n", "o", "p", "q", "r", "s", "t", "u", "v", "w", "x", "y", "z">>
UpperCase == <<"A", "B", "C", "D", "E", "F", "G", "H", "I", "J", "K", "L", "M", "N", "O", "P", "Q", "R", "S", "T", "U", "V", "W", "X", "Y", "Z">>

\* String.prototype.toUpperCase, on letters a to z
toUpperCase(s) ==
    [i \in 1..Len(s) |->
        IF \E k \in 1..26 : LowerCase[k] = s[i]
        THEN UpperCase[CHOOSE k \in 1..26 : LowerCase[k] = s[i]]
        ELSE s[i]]

S_h3 == <<"#", "#", "#", " ">>
S_detailsOpen == <<"\n", "\n", "<", "d", "e", "t", "a", "i", "l", "s", ">", "\n", "<", "s", "u", "m", "m", "a", "r", "y", ">", "S", "D", "K", " ", "U", "s", "a", "g", "e", "<", "/", "s", "u", "m", "m", "a", "r", "y", ">", "\n", "\n">>
S_detailsClose == <<"<", "/", "d", "e", "t", "a", "i", "l", "s", ">", "\n", "\n">>
S_rule == <<"-", "-", "-", "\n", "\n">>

\* the strings handed to parts.push for a method node, with the values they
\* are built from: routeTypes after the loop over the descriptor and after
\* the repair of routeTypes.params
PushedStrings(propName, path, rt, params, hasBody, hasParams, hasQuery) ==
    [method |-> propName,
     path |-> path,
     heading |-> S_h3 \o toUpperCase(propName) \o <<" ">> \o path \o S_detailsOpen,
     sdk |-> generateSdkCodeBlock(path, propName, hasBody, hasParams, hasQuery,
                                  params, S_defaultImport, S_treaty, EmptyStr),
     client |-> buildClientPath(path),
     hasBody |-> hasBody,
     hasParams |-> hasParams,
     hasQuery |-> hasQuery,
     body |-> IF hasBody THEN formatTypeBlock(S_Body, rt[S_body]) ELSE NoBlock,
     params |-> IF hasParams THEN formatTypeBlock(S_Params, params) ELSE NoBlock,
     paramsType |-> params,
     query |-> IF hasQuery THEN formatTypeBlock(S_Query, rt[S_query]) ELSE NoBlock,
     response |-> formatTypeBlock(S_Response, rt[S_response]),
     closing |-> S_detailsClose \o S_rule]

\* hasBody, hasParams and hasQuery
Flagged(propName, path, rt, params) ==
    PushedStrings(propName, path, rt, params,
                  rt[S_body] # S_unknown, params # S_emptyObj, rt[S_query] # S_unknown)

\* routeTypes.params is repaired
Repaired(propName, path, rt) == Flagged(propName, path, rt, RepairParams(rt[S_params]))

\* the section pushed for a method node
Section(propName, path, methodProps) == Repaired(propName, path, RouteTypes(methodProps))

\* formatTypeBlock threw while the section was built
SectionThrew(sec) ==
    sec.body.threw \/ sec.params.threw \/ sec.query.threw \/ sec.response.threw

\* the property names and method descriptors the route trees are built from
MethodNames == {S_get, S_post}
SegmentNames == {S_users, S_colonId}
SkippedNames == {S_store, S_underscoreX, S_tildeX}
MethodDescriptors == {
    << >>,
    <<Prop(S_response, FALSE, "objId")>>,
    <<Prop(S_params, FALSE, "resolvePath"), Prop(S_body, FALSE, "objName"),
      Prop(S_headers, FALSE, "string"), Prop(S_query, FALSE, "strOrNull")>>,
    <<Prop(S_response, FALSE, "quoteLit")>>,
    <<Prop(S_body, FALSE, "objName"), Prop(S_params, FALSE, "objEmpty"),
      Prop(S_query, FALSE, "strOrNull")>>,
    <<Prop(S_params, FALSE, "objId"), Prop(S_query, FALSE, "unknown")>> }

\* the method nodes of the route trees: a property name with its descriptor
MethodNodes == ({S_get} \X MethodDescriptors) \cup {<<S_post, << >> >>}

\* the path handed to the nested walk of "~Routes": the literal ""
NestedPath(path) == EmptyStr

WFrame(path, chain) == [path |-> path, parts |-> << >>, chain |-> chain]

WTop == wstack[Len(wstack)]

Walking == wstatus = "walking" /\ Len(wstack) > 0

\* generateDocsFromType(typeAlias.getType(), typeAlias, "", ...)
InitWalk ==
    /\ wstack = <<WFrame(EmptyStr, << >>)>>
    /\ records = << >>
    /\ trail = << >>
    /\ lastVisit = NoVisit
    /\ visited = 0
    /\ wstatus = "walking"
    /\ ResolveIdle
    /\ TextIdle
    /\ DocsIdle

\* the next property is an HTTP method, and the path is still empty: skipped
SkipRootMethod ==
    /\ Walking
    /\ visited < MaxProps
    /\ WTop.path = EmptyStr
    /\ \E propName \in MethodNames :
          lastVisit' = [kind |-> "method", name |-> propName, path |-> WTop.path, chain |-> WTop.chain,
                        pushed |-> 0]
    /\ visited' = visited + 1
    /\ UNCHANGED <<wstack, records, trail, wstatus>>
    /\ UNCHANGED resolveVars
    /\ UNCHANGED textVars
    /\ UNCHANGED docVars

\* the next property is an HTTP method below a path: its section is pushed,
\* unless formatTypeBlock throws
MethodNode ==
    /\ Walking
    /\ visited < MaxProps
    /\ WTop.path # EmptyStr
    /\ \E node \in MethodNodes :
          LET propName == node[1]
              methodProps == node[2]
              sec == Section(propName, WTop.path, methodProps)
              n == Len(wstack)
          IN IF SectionThrew(sec)
             THEN /\ wstatus' = "threw"
                  /\ wstack' = << >>
                  /\ lastVisit' = [kind |-> "method", name |-> propName,
                                   path |-> WTop.path, chain |-> WTop.chain, pushed |-> 0]
                  /\ UNCHANGED <<records, trail>>
             ELSE /\ wstack' = [wstack EXCEPT ![n].parts = Append(@, sec)]
                  /\ trail' = Append(trail, [chain |-> Append(WTop.chain, propName),
                                             descriptor |-> methodProps,
                                             section |-> sec])
                  /\ lastVisit' = [kind |-> "method", name |-> propName,
                                   path |-> WTop.path, chain |-> WTop.chain, pushed |-> 1]
                  /\ UNCHANGED <<records, wstatus>>
    /\ visited' = visited + 1
    /\ UNCHANGED resolveVars
    /\ UNCHANGED textVars
    /\ UNCHANGED docVars

\* the next property is "~Routes": the walker recurses into it
NestedRoutes ==
    /\ Walking
    /\ visited < MaxProps
    /\ Len(wstack) <= MaxTreeDepth
    /\ wstack' = Append(wstack, WFrame(NestedPath(WTop.path), Append(WTop.chain, S_Routes)))
    /\ lastVisit' = [kind |-> "routes", name |-> S_Routes, path |-> WTop.path, chain |-> WTop.chain, pushed |-> 0]
    /\ visited' = visited + 1
    /\ UNCHANGED <<records, trail, wstatus>>
    /\ UNCHANGED resolveVars
    /\ UNCHANGED textVars
    /\ UNCHANGED docVars

\* `${path}${separator}${propName}`
ExtendPath(path, propName) ==
    path \o (IF StartsWith(propName, <<":">>) /\ path = EmptyStr THEN EmptyStr ELSE <<"/">>)
    \o propName

\* the property is walked as a path segment
IsSegment(propName) ==
    /\ propName \notin HTTP_METHODS
    /\ propName # S_Routes
    /\ propName \notin INTERNAL_PROPS
    /\ ~StartsWith(propName, <<"~">>)
    /\ ~StartsWith(propName, <<"_">>)

\* the next property is a path segment: the walker recurses with a longer path
PathSegment ==
    /\ Walking
    /\ visited < MaxProps
    /\ Len(wstack) <= MaxTreeDepth
    /\ \E propName \in SegmentNames :
          /\ IsSegment(propName)
          /\ wstack' = Append(wstack, WFrame(ExtendPath(WTop.path, propName),
                                             Append(WTop.chain, propName)))
          /\ lastVisit' = [kind |-> "segment", name |-> propName, path |-> WTop.path, chain |-> WTop.chain,
                           pushed |-> 0]
    /\ visited' = visited + 1
    /\ UNCHANGED <<records, trail, wstatus>>
    /\ UNCHANGED resolveVars
    /\ UNCHANGED textVars
    /\ UNCHANGED docVars

\* the next property is internal metadata: nothing happens
SkipProp ==
    /\ Walking
    /\ visited < MaxProps
    /\ \E propName \in SkippedNames :
          /\ propName \notin HTTP_METHODS
          /\ propName # S_Routes
          /\ ~IsSegment(propName)
          /\ lastVisit' = [kind |-> "skipped", name |-> propName, path |-> WTop.path, chain |-> WTop.chain,
                           pushed |-> 0]
    /\ visited' = visited + 1
    /\ UNCHANGED <<wstack, records, trail, wstatus>>
    /\ UNCHANGED resolveVars
    /\ UNCHANGED textVars
    /\ UNCHANGED docVars

\* no property is left: return parts.join("")
EndNode ==
    /\ Walking
    /\ LET n == Len(wstack) IN
       IF n = 1
       THEN /\ records' = WTop.parts
            /\ wstack' = << >>
            /\ wstatus' = "done"
       ELSE /\ wstack' = [SubSeq(wstack, 1, n - 1) EXCEPT
                             ![n - 1].parts = @ \o WTop.parts]
            /\ UNCHANGED <<records, wstatus>>
    /\ UNCHANGED <<trail, lastVisit, visited>>
    /\ UNCHANGED resolveVars
    /\ UNCHANGED textVars
    /\ UNCHANGED docVars

NextWalk ==
    SkipRootMethod \/ MethodNode \/ NestedRoutes \/ PathSegment \/ SkipProp \/ EndNode

SpecWalk == InitWalk /\ [][NextWalk]_vars

----------------------------------------------------------------------------
(* generateDocs: one document for a list of apps *)

\* a property of a route tree: sub is what getProperties() of its type returns
TreeProp(name, type, sub) == [name |-> name, optional |-> FALSE, type |-> type, sub |-> sub]

\* a method node and a node that is walked into or skipped
Method(name, methodProps) == TreeProp(name, NoHandle, methodProps)
Node(name, sub) == TreeProp(name, NoHandle, sub)

\* parts.push(...more)
PushAllFront(parts, more) == more \o parts

PushAll(parts, more) == parts \o more

NoParts == [threw |-> FALSE, parts |-> << >>]
WalkThrew == [threw |-> TRUE, parts |-> << >>]

\* the parts after the pushes of one property and of the properties after it
Pushed(here, rest) ==
    IF here.threw \/ rest.threw THEN WalkThrew
    ELSE [threw |-> FALSE, parts |-> PushAll(here.parts, rest.parts)]

\* parts.push(heading, SDK block, type blocks, closing), unless formatTypeBlock throws
SectionParts(sec) ==
    IF SectionThrew(sec) THEN WalkThrew ELSE [threw |-> FALSE, parts |-> <<sec>>]

\* a property named after an HTTP method: skipped at the root
MethodParts(propName, path, methodProps) ==
    IF path = EmptyStr THEN NoParts ELSE SectionParts(Section(propName, path, methodProps))

RECURSIVE WalkProperties(_, _, _)
\* the loop of generateDocsFromType over type.getProperties(), from property
\* i on: the sections pushed, or the error that ends the walk
WalkProperties(type, path, i) ==
    IF i > Len(type) THEN NoParts
    ELSE Pushed(IF type[i].name \in HTTP_METHODS
                THEN MethodParts(type[i].name, path, type[i].sub)
                ELSE IF type[i].name = S_Routes
                THEN WalkProperties(type[i].sub, NestedPath(path), 1)
                ELSE IF IsSegment(type[i].name)
                THEN WalkProperties(type[i].sub, ExtendPath(path, type[i].name), 1)
                ELSE NoParts,
                WalkProperties(type, path, i + 1))

\* generateDocsFromType(type, enclosingNode, path, ...): parts.join("") is the
\* sections in the order of parts
generateDocsFromType(type, path) == WalkProperties(type, path, 1)

\* the route trees of the source files
UsersRoutes == <<
    Node(S_Routes, <<
        Node(S_users, <<
            Method(S_get, <<Prop(S_response, FALSE, "objId")>>),
            Node(S_colonId, <<
                Method(S_get, <<Prop(S_params, FALSE, "resolvePath"),
                                Prop(S_response, FALSE, "objName")>>),
                Method(S_post, <<Prop(S_body, FALSE, "objName")>>) >>),
            Method(S_post, << >>) >>) >>) >>

OrdersRoutes == <<
    Method(S_get, << >>),
    Node(S_store, <<Method(S_get, << >>)>>),
    Node(S_users, <<
        Node(S_Routes, <<
            Node(S_colonId, <<Method(S_post, <<Prop(S_query, FALSE, "strOrNull")>>)>>) >>),
        Method(S_get, <<Prop(S_response, FALSE, "objId")>>) >>) >>

BrokenRoutes == <<
    Node(S_users, <<
        Method(S_post, << >>),
        Method(S_get, <<Prop(S_response, FALSE, "quoteLit")>>) >>) >>

NoRoutes == << >>

\* the source files on disk: the type aliases each declares, and the
\* properties of the type of its alias App
SourceFiles ==
    [f \in {"users.ts", "orders.ts", "broken.ts", "other.ts"} |->
        IF f = "users.ts" THEN [aliases |-> {"App"}, routes |-> UsersRoutes]
        ELSE IF f = "orders.ts" THEN [aliases |-> {"App"}, routes |-> OrdersRoutes]
        ELSE IF f = "broken.ts" THEN [aliases |-> {"App"}, routes |-> BrokenRoutes]
        ELSE [aliases |-> {}, routes |-> NoRoutes]]

OnDisk == DOMAIN SourceFiles

\* an entry file that is not on disk
MissingFile == "missing.ts"

S_api == <<"a", "p", "i">>
S_web == <<"w", "e", "b">>

\* an AppConfig: sourceFilesGlob is absent ("none") or a glob that matches
\* every source file on disk ("all"); typeAliasName and sdk are absent
AppConfigs ==
    [name : {S_api, S_web},
     entryFile : OnDisk \cup {MissingFile},
     sourceFilesGlob : {"none", "all"}]

\* the longest list of apps
MaxApps == 2

AppLists == SeqsOf(AppConfigs, 0, MaxApps)

S_title == <<"#", " ", "A", "P", "I", " ", "D", "o", "c", "u", "m", "e", "n", "t", "a", "t", "i", "o", "n", "\n", "\n">>
S_description == <<"T", "h", "i", "s", " ", "d", "o", "c", "u", "m", "e", "n", "t", " ", "c", "o", "n", "t", "a", "i", "n", "s", " ", "A", "P", "I", " ", "d", "o", "c", "u", "m", "e", "n", "t", "a", "t", "i", "o", "n", " ", "f", "o", "r", " ", "t", "h", "e", " ", "c", "o", "n", "f", "i", "g", "u", "r", "e", "d", " ", "e", "l", "y", "s", "i", "a", " ", "a", "p", "p", "s", ".", "\n", "\n">>
S_h2 == <<"#", "#", " ">>
S_apiSuffix == <<" ", "A", "P", "I", "\n", "\n">>

\* an element of parts: a string, or the string the walker returned, kept as
\* the sections it is the concatenation of
TextPart(text) == [text |-> text, sections |-> << >>]
WalkPart(sections) == [text |-> EmptyStr, sections |-> sections]

\* `# ${title}\n\n${description}\n\n`
TitlePart == TextPart(S_title \o S_description)

\* `## ${appName[0].toUpperCase() + appName.slice(1)} API\n\n`
AppHeading(appName) ==
    TextPart(S_h2 \o toUpperCase(<<appName[1]>>) \o SubSeq(appName, 2, Len(appName))
             \o S_apiSuffix)

CurrentApp == apps[appIdx]

InLoop == dstatus = "running" /\ appIdx <= Len(apps)

\* project after addSourceFilesAtPaths(glob) or addSourceFileAtPath(entryFile):
\* only a file on disk is added
Added(app) ==
    IF app.sourceFilesGlob = "all" THEN project \cup OnDisk
    ELSE project \cup ({app.entryFile} \cap OnDisk)

\* project.getSourceFile(entryFile) after the files of the app were added
EntryFound(app) == app.entryFile \in Added(app)

\* generateDocs(options): parts holds the title, the Project holds no file
InitDocs ==
    /\ apps \in AppLists
    /\ project = {}
    /\ appIdx = 1
    /\ docParts = <<TitlePart>>
    /\ errors = << >>
    /\ written = << >>
    /\ dstatus = "running"
    /\ ResolveIdle
    /\ TextIdle
    /\ WalkIdle

\* no sourceFilesGlob and the entry file is not on disk: addSourceFileAtPath
\* throws and generateDocs ends there
AddSourceFileThrows ==
    /\ InLoop
    /\ CurrentApp.sourceFilesGlob = "none"
    /\ CurrentApp.entryFile \notin OnDisk
    /\ dstatus' = "threw"
    /\ UNCHANGED <<apps, project, appIdx, docParts, errors, written>>
    /\ UNCHANGED resolveVars
    /\ UNCHANGED textVars
    /\ UNCHANGED walkVars

\* the files are added, getSourceFile finds no entry file: continue
EntryFileNotFound ==
    /\ InLoop
    /\ ~(CurrentApp.sourceFilesGlob = "none" /\ CurrentApp.entryFile \notin OnDisk)
    /\ ~EntryFound(CurrentApp)
    /\ project' = Added(CurrentApp)
    /\ errors' = Append(errors, [app |-> appIdx, message |-> "entry file not found"])
    /\ appIdx' = appIdx + 1
    /\ UNCHANGED <<apps, docParts, written, dstatus>>
    /\ UNCHANGED resolveVars
    /\ UNCHANGED textVars
    /\ UNCHANGED walkVars

\* the entry file has no type alias App: continue
TypeAliasNotFound ==
    /\ InLoop
    /\ EntryFound(CurrentApp)
    /\ "App" \notin SourceFiles[CurrentApp.entryFile].aliases
    /\ project' = Added(CurrentApp)
    /\ errors' = Append(errors, [app |-> appIdx, message |-> "type alias not found"])
    /\ appIdx' = appIdx + 1
    /\ UNCHANGED <<apps, docParts, written, dstatus>>
    /\ UNCHANGED resolveVars
    /\ UNCHANGED textVars
    /\ UNCHANGED walkVars

\* the app is documented: its heading, the walk of its route tree from the
\* path "" and "\n" are pushed, unless the walk throws
DocumentApp ==
    /\ InLoop
    /\ EntryFound(CurrentApp)
    /\ "App" \in SourceFiles[CurrentApp.entryFile].aliases
    /\ project' = Added(CurrentApp)
    /\ LET walk == generateDocsFromType(SourceFiles[CurrentApp.entryFile].routes, EmptyStr)
       IN IF walk.threw
          THEN /\ dstatus' = "threw"
               /\ UNCHANGED <<appIdx, docParts>>
          ELSE /\ docParts' = PushAll(docParts, <<AppHeading(CurrentApp.name),
                                                  WalkPart(walk.parts),
                                                  TextPart(S_nl)>>)
               /\ appIdx' = appIdx + 1
               /\ UNCHANGED dstatus
    /\ UNCHANGED <<apps, errors, written>>
    /\ UNCHANGED resolveVars
    /\ UNCHANGED textVars
    /\ UNCHANGED walkVars

\* after the loop: writeFileSync(outputPath, parts.join(""))
WriteDocs ==
    /\ dstatus = "running"
    /\ appIdx > Len(apps)
    /\ written' = Append(written, docParts)
    /\ dstatus' = "done"
    /\ UNCHANGED <<apps, project, appIdx, docParts, errors>>
    /\ UNCHANGED resolveVars
    /\ UNCHANGED textVars
    /\ UNCHANGED walkVars

NextDocs ==
    AddSourceFileThrows \/ EntryFileNotFound \/ TypeAliasNotFound \/ DocumentApp \/ WriteDocs

SpecDocs == InitDocs /\ [][NextDocs]_vars

----------------------------------------------------------------------------
(* Properties of the string functions and of the walker *)

\* C2 as stated: the core never throws: no function applied to a string and
\* no walk of a route tree ends in an error instead of a string result.
C2_NeverThrows == ~txtErr /\ wstatus # "threw"

\* C9 as stated: a method node visited with an empty path pushes no section,
\* the same method node one path segment deeper pushes exactly one, and no
\* section has an empty path.
C9_RouteSkip ==
    /\ lastVisit.kind = "method" =>
          /\ lastVisit.path = EmptyStr => lastVisit.pushed = 0
          /\ (Len(lastVisit.chain) = 1 /\ lastVisit.chain[1] \in SegmentNames) =>
                lastVisit.pushed = 1
    /\ \A i \in 1..Len(trail) : trail[i].section.path # EmptyStr
    /\ \A i \in 1..Len(records) : records[i].path # EmptyStr

RECURSIVE SegmentsPath(_)
\* the segments, each after a "/", but a leading parameter segment without it
SegmentsPath(segs) ==
    IF Len(segs) = 0 THEN EmptyStr
    ELSE IF Len(segs) = 1
    THEN (IF StartsWith(segs[1], <<":">>) THEN segs[1] ELSE <<"/">> \o segs[1])
    ELSE SegmentsPath(SubSeq(segs, 1, Len(segs) - 1)) \o <<"/">> \o segs[Len(segs)]

NotRoutesMarker(propName) == propName # S_Routes

\* C10 as stated: the path of every section is the concatenation of all the
\* path-segment names from the tree root to its method node (the ~Routes
\* markers contribute nothing), each after a "/", except a parameter segment
\* that comes first.
C10_PathInvariant ==
    \A i \in 1..Len(trail) :
        LET chain == trail[i].chain
            segs == SelectSeq(SubSeq(chain, 1, Len(chain) - 1), NotRoutesMarker)
        IN trail[i].section.path = SegmentsPath(segs)

\* C11 as stated: every invocation entered through a "~Routes" property, at
\* any depth of the tree, holds the accumulated path of the invocation that
\* made it (not extended, not reset).
C11_NestedSamePath ==
    \A i \in 2..Len(wstack) :
        wstack[i].chain[Len(wstack[i].chain)] = S_Routes =>
            wstack[i].path = wstack[i - 1].path

\* the position in trail of the section that the last visit pushed; a section
\* does not change once it is pushed, so what holds of it in the states that
\* follow the push holds of every section
JustPushed ==
    IF lastVisit.kind = "method" /\ lastVisit.pushed = 1 THEN {Len(trail)} ELSE {}

\* the object literal with one string field per name, or {}
StringFields(names) ==
    IF Len(names) = 0 THEN S_emptyObj
    ELSE <<"{">> \o Join([i \in 1..Len(names) |-> names[i] \o S_colonString], S_commaSp)
         \o <<"}">>

\* C12 as stated: for a method node whose normalized params starts with
\* _ResolvePath<, the params of the section is parseParamsFromPath of the
\* path the walker holds, and so has one string field per parameter segment
\* of the section's own path.
C12_ParamRepair ==
    \A i \in JustPushed :
        StartsWith(RouteTypes(trail[i].descriptor)[S_params], S_resolvePrefix) =>
            /\ trail[i].section.paramsType = parseParamsFromPath(trail[i].section.path)
            /\ trail[i].section.paramsType =
                  StringFields(ParamSegmentNames(trail[i].section.path))

\* s holds w as a run of consecutive characters
Contains(s, w) == \E i \in 1..(Len(s) - Len(w) + 1) : HasPrefixAt(s, i, w)

\* the text of a labeled block up to the type: **Label:**\n\n```typescript\n
BlockHead(label) == S_stars \o label \o S_blockOpen

\* the arguments of the usage call, by the blocks that are present
ExpectedArgs(body, query) ==
    IF body /\ query THEN S_body \o S_commaSp \o S_queryArg
    ELSE IF body THEN S_body
    ELSE IF query THEN S_queryArg
    ELSE EmptyStr

\* C14: every section pushed has a Response block; it has a Body, Params or
\* Query block exactly when the normalized body / query is not `unknown`, the
\* repaired params not `{}`; and the usage call passes `body` and `{ query }`
\* exactly when the Body and the Query block are there.
C14_RenderedBlocks ==
    \A i \in JustPushed :
        LET sec == trail[i].section
            rt == RouteTypes(trail[i].descriptor)
            body == rt[S_body] # S_unknown
            params == RepairParams(rt[S_params]) # S_emptyObj
            query == rt[S_query] # S_unknown
        IN /\ StartsWith(sec.response.value, BlockHead(S_Response))
           /\ IF body THEN StartsWith(sec.body.value, BlockHead(S_Body))
              ELSE sec.body.value = EmptyStr
           /\ IF params THEN StartsWith(sec.params.value, BlockHead(S_Params))
              ELSE sec.params.value = EmptyStr
           /\ IF query THEN StartsWith(sec.query.value, BlockHead(S_Query))
              ELSE sec.query.value = EmptyStr
           /\ Contains(sec.sdk, <<".">> \o sec.method \o <<"(">>
                                \o ExpectedArgs(sec.body.value # EmptyStr,
                                                sec.query.value # EmptyStr)
                                \o <<")", ";">>)

\* a section with a Body and a Query block and no Params block was pushed, and
\* one with a Params block and no Body block
C14_Witness ==
    /\ \E i \in 1..Len(trail) :
          /\ trail[i].section.body.value # EmptyStr
          /\ trail[i].section.query.value # EmptyStr
          /\ trail[i].section.params.value = EmptyStr
          /\ Contains(trail[i].section.sdk, <<"(">> \o S_body \o S_commaSp \o S_queryArg \o <<")">>)
    /\ \E i \in 1..Len(trail) :
          /\ trail[i].section.params.value # EmptyStr
          /\ trail[i].section.body.value = EmptyStr

\* the snippet declares `const params` with a field of this name
DeclaresParam(sdk, name) ==
    \E p \in 1..Len(sdk) :
        /\ HasPrefixAt(sdk, p, S_constParams)
        /\ \E k \in (p + Len(S_constParams))..Len(sdk) :
              /\ HasPrefixAt(sdk, k, name \o <<":">>)
              /\ sdk[k - 1] \notin WordChars

\* C20 as stated: in every section pushed, a name the client path expression
\* refers to as params.<name> is a field of the `const params` declaration of
\* the same snippet.
C20_SnippetConsistent ==
    \A i \in JustPushed :
        LET sec == trail[i].section
            names == ParamSegmentNames(sec.path)
        IN \A k \in 1..Len(names) :
              Contains(sec.sdk, S_paramsOpen \o names[k] \o <<"]">>) =>
                  /\ sec.hasParams
                  /\ DeclaresParam(sec.sdk, names[k])

----------------------------------------------------------------------------
(* Properties of prettyPrintType *)

\* C15 as stated: for every canonical type expression, a second pass through
\* prettyPrintType returns what the first pass returned.
C15_IdempotentOriginal ==
    (txtOp = "pretty2" /\ txtIn \in CanonicalExpressions) =>
        (~txtErr /\ txtOut = txtPrev)

StructureChars == {"{", "[", "}", "]", ";", ","}

\* C15 amended: a second pass returns what the first pass returned for every
\* expression that holds none of the characters { [ } ] ; , (the ones the
\* printer breaks lines at).
C15_IdempotentAmended ==
    (txtOp = "pretty2" /\ \A i \in 1..Len(txtIn) : txtIn[i] \notin StructureChars) =>
        (~txtErr /\ txtOut = txtPrev)

\* the second pass over the canonical expression string | null returned it
\* unchanged, and so did the second pass over a text with an escaped character
C15_Witness ==
    /\ txtOp = "pretty2"
    /\ txtIn \in {S_strOrNull, <<"\\", "a", " ", " ">>}
    /\ txtOut = txtPrev
    /\ txtIn = S_strOrNull => txtOut = S_strOrNull

Quotes == {"\"", "'"}

\* s[i..j] is a string literal: it opens at i, outside any other literal, and
\* closes at j, the next quote of the same kind
IsLiteral(s, i, j) ==
    /\ i < j
    /\ s[i] \in Quotes
    /\ s[j] = s[i]
    /\ \A k \in (i + 1)..(j - 1) : s[k] # s[i] /\ s[k] # "\\"
    /\ \A k \in 1..(i - 1) : s[k] \notin Quotes \cup {"\\"}

\* C19 as stated: the characters of a string literal, from its opening quote
\* to the closing quote of the same kind, are in the output as they are in the
\* input, also when the literal holds the other quote character, brackets or
\* separators; and the literal makes no call fail.
C19_StringSafety ==
    txtOp = "pretty" =>
        \A i, j \in 1..Len(txtIn) :
            IsLiteral(txtIn, i, j) =>
                /\ (\A k \in 1..Len(txtIn) : k \notin i..j => txtIn[k] \notin {"}", "]"})
                      => ~txtErr
                /\ ~txtErr => Contains(txtOut, SubSeq(txtIn, i, j))

----------------------------------------------------------------------------
(* Properties of the array and the intersection branch of resolveTypeText *)

Openers == {"{", "[", "(", "<"}
Closers == {"}", "]", ")", ">"}

\* the number of brackets open before position i of s
NestingAt(s, i) ==
    Cardinality({k \in 1..(i - 1) : s[k] \in Openers})
    - Cardinality({k \in 1..(i - 1) : s[k] \in Closers})

\* s holds the operator outside every bracket
TopLevelHas(s, op) ==
    \E i \in 1..Len(s) : HasPrefixAt(s, i, op) /\ NestingAt(s, i) = 0

\* an invocation that took the array branch, with an element type, has returned
ArrayReturned ==
    /\ ret.h # NoHandle
    /\ ret.depth <= MAX_RESOLVE_DEPTH
    /\ isArray(TypeOf(ret.h))
    /\ Len(TypeOf(ret.h).elems) > 0

\* C17 as stated: with E the element type normalized at depth + 1, the array
\* branch returns Array<E> exactly when E holds ` | ` or ` & ` outside every
\* bracket, and E[] otherwise, also when the element type is a union or an
\* intersection that normalizes to a single expression.
C17_ArrayByExpression ==
    ArrayReturned =>
        LET E == ret.acc[1] IN
        /\ E = resolveTypeText(TypeOf(ret.h).elems[1], ret.depth + 1)
        /\ ret.value = (IF TopLevelHas(E, S_pipe) \/ TopLevelHas(E, S_amp)
                        THEN S_Array \o <<"<">> \o E \o <<">">>
                        ELSE E \o S_brackets)

\* C17 amended: the array branch returns Array<E> exactly when the element
\* type is a union or an intersection type, whatever E looks like, and E[]
\* otherwise.
C17_ArrayByElementType ==
    ArrayReturned =>
        LET E == ret.acc[1]
            elem == TypeOf(TypeOf(ret.h).elems[1])
        IN /\ E = resolveTypeText(TypeOf(ret.h).elems[1], ret.depth + 1)
           /\ ret.value = (IF elem.kind \in {"union", "intersection"}
                           THEN S_Array \o <<"<">> \o E \o <<">">>
                           ELSE E \o S_brackets)

\* the array of false | true has returned Array<boolean>, or the array of
\* { id: number } & { name?: string } has returned the merged literal in Array<>
C17_Witness ==
    /\ ArrayReturned
    /\ ret.h = "root"
    /\ \/ /\ root.elems = <<"trueOrFalse">>
          /\ ret.value = S_Array \o <<"<">> \o S_boolean \o <<">">>
       \/ /\ root.elems = <<"idAndName">>
          /\ ~TopLevelHas(ret.acc[1], S_amp)
          /\ ret.value = S_Array \o <<"<">> \o ret.acc[1] \o <<">">>

\* an invocation that took the intersection branch has returned, and every
\* member is an anonymous object type (an object type that is no array, has
\* no call signature and is not named by an allow-listed generic), one of
\* them with properties
AnonymousIntersectionReturned ==
    /\ ret.h # NoHandle
    /\ ret.depth <= MAX_RESOLVE_DEPTH
    /\ isIntersection(TypeOf(ret.h))
    /\ Len(TypeOf(ret.h).elems) >= 2
    /\ \A i \in 1..Len(TypeOf(ret.h).elems) :
          LET m == TypeOf(TypeOf(ret.h).elems[i]) IN
          /\ m.kind \in {"object", "tuple"}
          /\ m.calls = 0
          /\ m.sym \notin KNOWN_GENERICS
          /\ m.alias \notin KNOWN_GENERICS
    /\ \E i \in 1..Len(TypeOf(ret.h).elems) :
          Len(TypeOf(TypeOf(ret.h).elems[i]).props) > 0

\* the properties of the merged property set that are written as ordinary
\* keys (not the symbol-named __@ ones)
OrdinaryProps(t) ==
    LET IsOrdinary(p) == ~StartsWith(p.name, S_internalPrefix) IN SelectSeq(t.props, IsOrdinary)

\* the value is one object literal with one entry per property, in order, each
\* type normalized at depth + 1, and no ` & ` outside the brackets
MergedLiteral(value, ps, depth) ==
    /\ \A i, j \in 1..Len(ps) : i # j => ps[i].name # ps[j].name
    /\ value = <<"{", " ">>
               \o Join([i \in 1..Len(ps) |->
                           Entry(ps[i], resolveTypeText(ps[i].type, depth + 1))], S_semiSp)
               \o <<" ", "}">>
    /\ ~TopLevelHas(value, S_amp)

\* C18 as stated: for an intersection of anonymous object types, one of them
\* with properties, the result is a single object literal built from the
\* merged property set, each key once, with no ` & ` joining the members.
C18_FlattenOriginal ==
    AnonymousIntersectionReturned =>
        LET ps == OrdinaryProps(TypeOf(ret.h)) IN
        IF Len(ps) > 0 THEN MergedLiteral(ret.value, ps, ret.depth)
        ELSE /\ ~TopLevelHas(ret.value, S_amp)
             /\ StartsWith(ret.value, <<"{">>)

\* C18 amended: the same, for an intersection whose merged property set has a
\* property that is not symbol-named; the literal lists those properties.
C18_FlattenAmended ==
    (AnonymousIntersectionReturned /\ Len(OrdinaryProps(TypeOf(ret.h))) > 0) =>
        MergedLiteral(ret.value, OrdinaryProps(TypeOf(ret.h)), ret.depth)

\* { id: number } & { name?: string } & { id: number } has returned
\* { id: number; name?: string }
C18_Witness ==
    /\ AnonymousIntersectionReturned
    /\ ret.h = "root"
    /\ root.elems = <<"objId", "objName", "objId">>
    /\ ret.value = <<"{", " ">> \o S_id \o S_colonSp \o S_number \o S_semiSp
                   \o S_name \o <<"?">> \o S_colonSp \o S_string \o <<" ", "}">>

----------------------------------------------------------------------------
(* Properties of generateDocs *)

\* the app can be documented: its entry file is on disk and declares App
Documentable(app) ==
    app.entryFile \in OnDisk /\ "App" \in SourceFiles[app.entryFile].aliases

DocumentableApps == {i \in 1..Len(apps) : Documentable(apps[i])}

\* the document holds the heading of app i followed by the walk of its routes
Contributes(doc, i) ==
    \E k \in 1..(Len(doc) - 1) :
        /\ doc[k] = AppHeading(apps[i].name)
        /\ doc[k + 1] =
              WalkPart(generateDocsFromType(SourceFiles[apps[i].entryFile].routes,
                                            EmptyStr).parts)

\* C16 as stated: for every list of apps, generateDocs raises no error, an
\* app whose entry file cannot be located or whose type alias is not found
\* contributes nothing, every other app contributes its section, and the
\* document is written exactly once, after all apps have been processed.
C16_FailureIsolation ==
    /\ dstatus # "threw"
    /\ Len(written) <= 1
    /\ written # << >> => appIdx > Len(apps)
    /\ dstatus = "done" =>
          /\ Len(written) = 1
          /\ Len(written[1]) = 1 + 3 * Cardinality(DocumentableApps)
          /\ \A i \in DocumentableApps : Contributes(written[1], i)

RECURSIVE WalkedInto(_)
\* the positions of the properties the walker reaches in a type, each as the
\* list of the indexes that lead to it
WalkedInto(type) ==
    {<<i>> : i \in 1..Len(type)}
    \cup UNION {{<<i>> \o at : at \in WalkedInto(type[i].sub)} :
                i \in {j \in 1..Len(type) :
                          type[j].name = S_Routes \/ IsSegment(type[j].name)}}

RECURSIVE PropertyAt(_, _)
PropertyAt(type, at) ==
    IF Len(at) = 1 THEN type[at[1]] ELSE PropertyAt(type[at[1]].sub, Tail(at))

RECURSIVE PathAt(_, _, _)
\* the path the walker holds where it reaches the property at a position
PathAt(type, at, path) ==
    IF Len(at) = 1 THEN path
    ELSE PathAt(type[at[1]].sub, Tail(at),
                IF type[at[1]].name = S_Routes THEN NestedPath(path)
                ELSE ExtendPath(path, type[at[1]].name))

\* the positions of the endpoints of a route tree
EndpointsOf(type) ==
    {at \in WalkedInto(type) :
        /\ PropertyAt(type, at).name \in HTTP_METHODS
        /\ PathAt(type, at, EmptyStr) # EmptyStr}

\* position p comes before position q in pre-order
Before(p, q) ==
    \E k \in 1..Len(p) :
        /\ k <= Len(q)
        /\ p[k] < q[k]
        /\ \A j \in 1..(k - 1) : p[j] = q[j]

RECURSIVE InPreOrder(_)
InPreOrder(positions) ==
    IF positions = {} THEN << >>
    ELSE <<CHOOSE p \in positions : \A q \in positions \ {p} : Before(p, q)>>
         \o InPreOrder(positions \
                       {CHOOSE p \in positions : \A q \in positions \ {p} : Before(p, q)})

\* the sections of the endpoints of a route tree, in pre-order
SectionsInPreOrder(type) ==
    [k \in 1..Cardinality(EndpointsOf(type)) |->
        Section(PropertyAt(type, InPreOrder(EndpointsOf(type))[k]).name,
                PathAt(type, InPreOrder(EndpointsOf(type))[k], EmptyStr),
                PropertyAt(type, InPreOrder(EndpointsOf(type))[k]).sub)]

RECURSIVE DocumentOf(_)
\* the document of the first n apps: the title, then app by app in the order
\* of the list, the heading, the sections in pre-order and "\n"
DocumentOf(n) ==
    IF n = 0 THEN <<TitlePart>>
    ELSE DocumentOf(n - 1)
         \o (IF Documentable(apps[n])
             THEN <<AppHeading(apps[n].name),
                    WalkPart(SectionsInPreOrder(SourceFiles[apps[n].entryFile].routes)),
                    TextPart(S_nl)>>
             ELSE << >>)

\* C13: the document that is written lists the endpoints of each app in
\* pre-order of the properties of its route tree (declaration order at each
\* node, a subtree at the position of the property that roots it), and the
\* apps in the order of the apps list.
C13_TraversalOrder ==
    dstatus = "done" => written[Len(written)] = DocumentOf(Len(apps))

\* a document of two apps was written: the second app has an endpoint below a
\* nested segment between two endpoints of the segment above it
C13_Witness ==
    /\ dstatus = "done"
    /\ Len(apps) = 2
    /\ apps[1].name = S_web /\ apps[1].entryFile = "orders.ts"
    /\ apps[2].name = S_api /\ apps[2].entryFile = "users.ts"
    /\ Len(written[1]) = 7
    /\ written[1][2] = AppHeading(S_web)
    /\ Len(written[1][3].sections) = 2
    /\ written[1][5] = AppHeading(S_api)
    /\ Len(written[1][6].sections) = 4
    /\ written[1][6].sections[1].method = S_get
    /\ written[1][6].sections[1].path = <<"/">> \o S_users
    /\ written[1][6].sections[3].path = <<"/">> \o S_users \o <<"/">> \o S_colonId
    /\ written[1][6].sections[4].method = S_post
    /\ written[1][6].sections[4].path = <<"/">> \o S_users

====
